---- MODULE Spec2Model ----
(***************************************************************************)
(* Pipeline Reliability Dashboard: the run-record store, the Jenkins poll  *)
(* sync, the Jenkins webhook reconcile, the push webhooks and the failure  *)
(* notifier, modelled from Health_Dashboard/backend/app.                   *)
(*                                                                         *)
(* Time is counted in minutes.  The clock advances in steps of TickMinutes *)
(* (longer than the sweep window of auto_sync_jenkins plus the IST shift   *)
(* of _convert_timestamp), so a stored start time is either inside or      *)
(* outside the window.  A start time of 0 stands for NULL / None.  The      *)
(* server's local clock (datetime.now()) is taken to run on UTC.           *)
(*                                                                         *)
(* Row ids are compared for order only; a new row gets the highest id.     *)
(*                                                                         *)
(* URLs are sequences of path segments after the host: the string          *)
(* "http://jenkins:8080/job/Foo/6/" is <<"job", "Foo", "6">>; <<>> is the  *)
(* empty / absent URL.                                                     *)
(***************************************************************************)
EXTENDS Integers, Sequences, FiniteSets, TLC

\* ---- bounds of the model ------------------------------------------------
MaxBuild == 2          \* build numbers 1..MaxBuild per job
MaxId == 2             \* at most MaxId records are ever created
MaxTick == 2           \* the clock takes the values TickMinutes * (1..MaxTick)
TickMinutes == 336     \* one clock step, in minutes
MaxListed == 1         \* builds of a job that one poll lists
SubmitT == 1000          \* the instant T of a submitted timestamp, in seconds
MaxRuns == 5             \* a table of runs holds at most MaxRuns rows
WindowFrom == 10         \* the lower bound of a metrics window, in seconds
NumSubs == 2             \* clients of GET /stream
MaxCauses == 2           \* a build lists at most MaxCauses causes
CountCap == 2          \* the history counters saturate here
MaxBatch == 2          \* entries in a list of builds handed to one sync
NumProcs == 2          \* threads that reconcile at the same time

\* ---- program constants --------------------------------------------------
WindowMinutes == 5         \* main.py: timedelta(minutes=5)
IstOffsetMinutes == 330    \* services/jenkins.py: pytz.timezone('Asia/Kolkata')

JobNames == {"Foo"}
BuildNums == 1..MaxBuild
Ids == 1..MaxId
Procs == 1..NumProcs

Cap(n) == IF n > CountCap THEN CountCap ELSE n

\* ---- pure helpers -------------------------------------------------------

\* str.lower() on the raw strings the model feeds in
Lower(s) ==
  CASE s = "SUCCESS" -> "success"
    [] s = "FAILURE" -> "failure"
    [] s = "UNSTABLE" -> "unstable"
    [] s = "ABORTED" -> "aborted"
    [] s = "Failed" -> "failed"
    [] s = "PASSED" -> "passed"
    [] OTHER -> s

\* str.strip() on the raw strings the model feeds in
Strip(s) ==
  CASE s = " failed " -> "failed"
    [] OTHER -> s

\* webhooks.normalize_status
NormalizeStatus(raw) ==
  IF raw = "" THEN "running"
  ELSE LET t == Lower(Strip(raw))
       IN CASE t \in {"success", "succeeded", "passed", "pass", "ok", "green"} -> "success"
            [] t \in {"failure", "failed", "error", "errored", "red", "cancelled", "canceled"}
                 -> "failure"
            [] t \in {"running", "in_progress", "queued", "pending"} -> "running"
            [] OTHER -> t

\* JenkinsService._parse_build_status
ParseBuildStatus(result) ==
  IF result = "" THEN "unknown"
  ELSE LET result_lower == Lower(result)
       IN CASE result_lower = "success" -> "success"
            [] result_lower = "failure" -> "failure"
            [] result_lower = "unstable" -> "unstable"
            [] result_lower = "aborted" -> "aborted"
            [] OTHER -> "unknown"

\* JenkinsService._parse_job_status, on the colours the model feeds in
ParseJobStatus(color) ==
  IF color = "" THEN "unknown"
  ELSE CASE color \in {"blue", "blue_anime"} -> "success"
         [] color \in {"red", "red_anime"} -> "failure"
         [] color = "yellow" -> "unstable"
         [] color \in {"grey", "disabled"} -> "disabled"
         [] color = "aborted" -> "aborted"
         [] OTHER -> "unknown"

\* JenkinsService._convert_timestamp: epoch -> IST wall clock; the store
\* keeps the wall-clock value without its zone
ConvertTimestamp(ts) == ts + IstOffsetMinutes

\* str(n) for a build number
NumStr(n) == ToString(n)

\* the URL Jenkins reports for a job and for a build
JobUrl(name) == <<"job", name>>
JenkinsBuildUrl(name, n) == <<"job", name, NumStr(n)>>

\* sync_jenkins_jobs: base_url.endswith('/job/' + pipeline_name)
EndsWithJob(u, name) ==
  Len(u) >= 2 /\ u[Len(u) - 1] = "job" /\ u[Len(u)] = name

\* sync_jenkins_jobs: the URL stored for a polled build
PollUrl(u, name, n) ==
  IF EndsWithJob(u, name) THEN u \o <<NumStr(n)>>
  ELSE u \o <<"job", name, NumStr(n)>>

\* sync_build_to_pipeline_runs: the URL stored for a webhook-reported build
HookUrl(u, n) == u \o <<NumStr(n)>>

\* int(s) for a path segment: 0 stands for ValueError
ParseInt(seg) ==
  IF \E n \in 1..(MaxBuild + 1) : NumStr(n) = seg
  THEN CHOOSE n \in 1..(MaxBuild + 1) : NumStr(n) = seg
  ELSE 0

\* '/job/' in url
HasJob(u) == \E i \in 1..Len(u) : u[i] = "job"

\* url.split('/job/')[1].rstrip('/').split('/'): the segments between the
\* first '/job/' and the next one
JobParts(u) ==
  LET first == CHOOSE i \in 1..Len(u) : u[i] = "job" /\ \A j \in 1..(i - 1) : u[j] # "job"
      later == {i \in (first + 1)..Len(u) : u[i] = "job"}
      stop == IF later = {} THEN Len(u) + 1
              ELSE CHOOSE i \in later : \A j \in later : i <= j
  IN SubSeq(u, first + 1, stop - 1)

\* ---- strings as sequences of characters ---------------------------------

LowerCase == <<"a", "b", "c", "d", "e", "f", "g", "h", "i", "j", "k", "l", "m", "n", "o", "p", "q", "r", "s", "t", "u", "v", "w", "x", "y", "z">>
UpperCase == <<"A", "B", "C", "D", "E", "F", "G", "H", "I", "J", "K", "L", "M", "N", "O", "P", "Q", "R", "S", "T", "U", "V", "W", "X", "Y", "Z">>
Whitespace == {" ", "\t", "\n"}

\* the characters of a string, joined into the string
RECURSIVE Str(_)
Str(cs) == IF cs = << >> THEN "" ELSE cs[1] \o Str(Tail(cs))

\* str.lower(), character by character
LowerChar(c) ==
  IF \E i \in 1..26 : UpperCase[i] = c
  THEN LowerCase[CHOOSE i \in 1..26 : UpperCase[i] = c]
  ELSE c
LowerChars(cs) == [i \in 1..Len(cs) |-> LowerChar(cs[i])]

\* str.strip(): leading and trailing whitespace removed
StripChars(cs) ==
  LET keep == {i \in 1..Len(cs) : cs[i] \notin Whitespace}
  IN IF keep = {} THEN << >>
     ELSE SubSeq(cs, CHOOSE i \in keep : \A j \in keep : i <= j,
                     CHOOSE i \in keep : \A j \in keep : i >= j)

\* an optional string: None, or the characters of a str
NoneStr == [none |-> TRUE, s |-> << >>]
SomeStr(cs) == [none |-> FALSE, s |-> cs]

\* normalize_status without the strip()
normalize_status_unstripped(raw) ==
  IF raw.none \/ raw.s = << >> THEN "running"
  ELSE LET s == Str(LowerChars(raw.s))
       IN CASE s \in {"success", "succeeded", "passed", "pass", "ok", "green"} -> "success"
            [] s \in {"failure", "failed", "error", "errored", "red", "cancelled", "canceled"}
                 -> "failure"
            [] s \in {"running", "in_progress", "queued", "pending"} -> "running"
            [] OTHER -> s

\* webhooks.normalize_status(raw), on the characters of raw
normalize_status(raw) ==
  IF raw.none \/ raw.s = << >> THEN "running"
  ELSE LET s == Str(LowerChars(StripChars(raw.s)))
       IN CASE s \in {"success", "succeeded", "passed", "pass", "ok", "green"} -> "success"
            [] s \in {"failure", "failed", "error", "errored", "red", "cancelled", "canceled"}
                 -> "failure"
            [] s \in {"running", "in_progress", "queued", "pending"} -> "running"
            [] OTHER -> s

\* JenkinsService._parse_build_status(result), on the characters of result
parse_build_status(result) ==
  IF result.none \/ result.s = << >> THEN "unknown"
  ELSE LET result_lower == Str(LowerChars(result.s))
       IN CASE result_lower = "success" -> "success"
            [] result_lower = "failure" -> "failure"
            [] result_lower = "unstable" -> "unstable"
            [] result_lower = "aborted" -> "aborted"
            [] OTHER -> "unknown"

\* str(n), the decimal digits of a number
RECURSIVE NumChars(_)
NumChars(n) ==
  IF n < 10 THEN <<ToString(n)>> ELSE NumChars(n \div 10) \o <<ToString(n % 10)>>

\* str.rstrip('/')
RECURSIVE RStripSlash(_)
RStripSlash(cs) ==
  IF cs # << >> /\ cs[Len(cs)] = "/" THEN RStripSlash(SubSeq(cs, 1, Len(cs) - 1))
  ELSE cs

\* str.endswith(suffix)
EndsWith(cs, suffix) ==
  /\ Len(cs) >= Len(suffix)
  /\ SubSeq(cs, Len(cs) - Len(suffix) + 1, Len(cs)) = suffix

\* sync_jenkins_jobs: the URL stored for a build, from build['url'], the
\* job's name and the build number, on the characters of the URL
PollUrlChars(url, name, build_number) ==
  LET base_url == RStripSlash(url)
  IN IF EndsWith(base_url, <<"/", "j", "o", "b", "/">> \o name)
     THEN base_url \o <<"/">> \o NumChars(build_number) \o <<"/">>
     ELSE base_url \o <<"/", "j", "o", "b", "/">> \o name \o <<"/">>
            \o NumChars(build_number) \o <<"/">>

\* sync_build_to_pipeline_runs: the URL stored for a build, from
\* build_details['url'] and the build number
HookUrlChars(url, build_number) ==
  RStripSlash(url) \o <<"/">> \o NumChars(build_number) \o <<"/">>

\* ---- the store and a database session -----------------------------------

\* a constructor that creates the row already marked as notified
NewRunNotified(provider, name, bn, status, started, url) ==
  [provider |-> provider, pipeline_name |-> name, build_number |-> bn,
   status |-> status, started_at |-> started, url |-> url, notified |-> TRUE]

\* models.PipelineRun
NewRun(provider, name, bn, status, started, url) ==
  [provider |-> provider, pipeline_name |-> name, build_number |-> bn,
   status |-> status, started_at |-> started, url |-> url, notified |-> FALSE]

VARIABLES
  store,    \* committed rows of pipeline_runs: id -> PipelineRun
  nextId,   \* the id the store assigns next
  tick,     \* the clock, in steps of TickMinutes
  opk,      \* history: the operation that ran last
  tgt,      \* history: id of the record that operation reconciled first (0: none)
  tnew,     \* history: that record was created by the operation
  tobs,     \* history: the status it observed for that record's build
  tatt,     \* history: calls of send_failure_alert for that record in the operation
  tevs,     \* history: the events the operation put on the event queue
  epi,      \* history: id -> successful deliveries since the record's status last
            \*          became failure
  ever,     \* history: id -> some delivery for the record has succeeded
  proc,     \* thread -> its position and its session, while reconciles interleave
  fn,       \* the function applied last, when functions are applied on their own
  arg,      \* the argument it is applied to
  res,      \* what it returned
  cyc,      \* the scheduled job: its position in a cycle, whether its session is open
  sse,      \* _event_queue and the generators of GET /stream that read it
  misfires  \* history: the calls of send_failure_alert made for a record that
            \* was notified already or for a status other than failure

vars == <<store, nextId, tick, opk, tgt, tnew, tobs, tatt, tevs, epi, ever, proc,
          fn, arg, res, cyc, sse, misfires>>

\* the part of the state the requests and jobs work on
runs == <<store, nextId, tick, opk, tgt, tnew, tobs, tatt, tevs, epi, ever, proc, cyc, sse,
          misfires>>

\* the part of the state a function applied on its own works on
call == <<fn, arg, res>>

Now == tick * TickMinutes

\* A session opened on the current store.  rows is what the object map of
\* the session holds (pending inserts included); db is what its SQL queries
\* see (autoflush is off: pending inserts and unflushed changes are not
\* visible until a commit flushes them).
\*
\* An operation maps a session to the SET of sessions it can end in: every
\* outbound call of the notifier either succeeds or fails.
Session ==
  [rows |-> store, db |-> store, nextId |-> nextId,
   tgt |-> 0, tnew |-> FALSE, tobs |-> "-", tatt |-> 0, evq |-> <<>>,
   epi |-> epi, ever |-> ever, bad |-> misfires]

\* Session.commit
Commit(W) == [W EXCEPT !.db = W.rows]

\* assignment of attributes of a loaded row
SetRow(W, id, r) ==
  [W EXCEPT !.rows[id] = r,
            !.epi[id] = IF r.status = "failure" THEN @ ELSE 0]

\* Session.add of a new row
AddRow(W, r) ==
  [W EXCEPT !.rows = @ @@ (W.nextId :> r), !.nextId = @ + 1]

\* history: the operation reconciles record id, observing status st
Observe(W, id, st) ==
  IF W.tgt = 0
  THEN [W EXCEPT !.tgt = id, !.tnew = (id \notin DOMAIN W.rows), !.tobs = st]
  ELSE W

\* a notifier that marks the row although the outbound call raised
AlertFailedMarks(W, id) ==
  [W EXCEPT !.tatt = IF id = W.tgt THEN Cap(@ + 1) ELSE @,
            !.rows[id].notified = TRUE]

\* send_failure_alert, the outbound call raised: caught, nothing changes
AlertFailed(W, id) ==
  [W EXCEPT !.tatt = IF id = W.tgt THEN Cap(@ + 1) ELSE @]

\* send_failure_alert, the outbound call returned: with a session the row is
\* marked and the session committed
AlertSent(W, id, hasDb) ==
  LET W1 == [W EXCEPT !.tatt = IF id = W.tgt THEN Cap(@ + 1) ELSE @,
                      !.epi[id] = Cap(@ + 1), !.ever[id] = TRUE]
  IN IF hasDb THEN Commit([W1 EXCEPT !.rows[id].notified = TRUE]) ELSE W1

\* broadcast_event({..., "id": run.id, "status": run.status}): put_nowait on
\* the unbounded queue
BroadcastEvent(W, id) ==
  [W EXCEPT !.evq = Append(@, [id |-> id, status |-> W.rows[id].status])]

\* send_failure_alert(run, db_session)
\* history: send_failure_alert is called for row id while st is the status
\* the caller records for it
Invoked(W, id, st) ==
  IF st = "failure" /\ ~W.rows[id].notified THEN W
  ELSE [W EXCEPT !.bad = @ \cup {[id |-> id, status |-> st,
                                 notified |-> W.rows[id].notified]}]

SendFailureAlert(W, id, hasDb, st) ==
  LET W0 == Invoked(W, id, st) IN {AlertFailed(W0, id), AlertSent(W0, id, hasDb)}

\* a lookup that never finds the row
FindRunBlind(W, name, bn) == 0

\* query(PipelineRun).filter_by(provider='jenkins', pipeline_name, build_number).first()
\* 0 when there is no such row
FindRun(W, name, bn) ==
  LET hits == {i \in DOMAIN W.db : /\ W.db[i].provider = "jenkins"
                                   /\ W.db[i].pipeline_name = name
                                   /\ W.db[i].build_number = bn}
  IN IF hits = {} THEN 0 ELSE CHOOSE i \in hits : \A j \in hits : i <= j

\* ---- what Jenkins reports -------------------------------------------------

BuildResults == {"SUCCESS", "FAILURE"}
JobColors == {"blue", "red"}

\* the start times (epoch minutes) Jenkins can report; 0 = none
BuildTimes == {0} \cup {t * TickMinutes : t \in 1..tick}

\* A build keeps the start time Jenkins first reported for it: a build that
\* has a row with a start time is reported with that time or with none.
TimesOf(name, bn) ==
  LET known == {store[i].started_at - IstOffsetMinutes :
                  i \in {j \in DOMAIN store : /\ store[j].provider = "jenkins"
                                              /\ store[j].pipeline_name = name
                                              /\ store[j].build_number = bn
                                              /\ store[j].started_at # 0}}
  IN IF known = {} THEN BuildTimes ELSE {0} \cup known

\* one entry of get_job_builds / the answer of get_build_details
BuildObs == [result : BuildResults, timestamp : BuildTimes]

\* get_job_builds: the builds listed for a job, by build number (the empty
\* function when the fetch fails)
BuildLists(name) ==
  UNION {{f \in [S -> BuildObs] : \A b \in S : f[b].timestamp \in TimesOf(name, b)} :
           S \in {T \in SUBSET BuildNums : Cardinality(T) <= MaxListed}}

\* ---- sync_jenkins_jobs ----------------------------------------------------

\* an update branch that clears the flag when the build is no longer failing
SyncExistingReset(W, ex, name, bn, build_status, started_at, u) ==
  {SetRow(Observe(W, ex, build_status), ex,
          [W.rows[ex] EXCEPT !.status = build_status,
                             !.notified = IF build_status = "failure" THEN @ ELSE FALSE])}

\* the update branch (existing is not None)
SyncExisting(W, ex, name, bn, build_status, started_at, u) ==
  LET old == W.rows[ex]
      W1 == SetRow(Observe(W, ex, build_status), ex,
                   [old EXCEPT !.status = build_status,
                               !.started_at = IF started_at # 0 THEN started_at ELSE @,
                               !.url = IF u # <<>> THEN PollUrl(u, name, bn) ELSE @,
                               !.build_number = bn])
  IN IF /\ build_status = "failure"
        /\ W1.rows[ex].status # "failure"
        /\ ~W1.rows[ex].notified
     THEN SendFailureAlert(W1, ex, TRUE, build_status)
     ELSE {W1}

\* the insert branch
SyncNew(W, name, bn, build_status, started_at, u) ==
  LET id == W.nextId
      complete_url == IF u # <<>> THEN PollUrl(u, name, bn) ELSE <<>>
      W1 == AddRow(Observe(W, id, build_status),
                   NewRun("jenkins", name, bn, build_status, started_at, complete_url))
  IN IF build_status = "failure"
     THEN SendFailureAlert(W1, id, TRUE, build_status)
     ELSE {W1}

\* the body of "for build in builds" for one build whose number is bn and
\* whose url is u
SyncBuildAt(W, name, bn, build, u) ==
  LET existing == FindRun(W, name, bn)
      build_status == ParseBuildStatus(build.result)
      started_at == IF build.timestamp # 0 THEN ConvertTimestamp(build.timestamp) ELSE 0
  IN IF existing # 0
     THEN SyncExisting(W, existing, name, bn, build_status, started_at, u)
     ELSE SyncNew(W, name, bn, build_status, started_at, u)

\* the same for a build Jenkins lists with its number and its own URL
SyncBuild(W, name, bn, build) ==
  SyncBuildAt(W, name, bn, build, JenkinsBuildUrl(name, bn))

\* "for build in builds": Jenkins lists the newest build first
RECURSIVE SyncBuilds(_, _, _, _)
SyncBuilds(Ws, name, builds, bn) ==
  IF bn = 0 THEN Ws
  ELSE SyncBuilds(IF bn \in DOMAIN builds
                  THEN UNION {SyncBuild(W, name, bn, builds[bn]) : W \in Ws}
                  ELSE Ws,
                  name, builds, bn - 1)

\* query(...).filter_by(provider='jenkins', pipeline_name)
\*   .order_by(started_at.desc()).first(); NULL sorts last, rows with equal
\* start times come in rowid order
LatestJob(W, name) ==
  LET hits == {i \in DOMAIN W.db : /\ W.db[i].provider = "jenkins"
                                   /\ W.db[i].pipeline_name = name}
      top == {i \in hits : \A j \in hits : W.db[i].started_at >= W.db[j].started_at}
  IN IF hits = {} THEN 0 ELSE CHOOSE i \in top : \A j \in top : i <= j

\* "Also sync the latest job info"
SyncLatest(W, name, color) ==
  LET latest_job == LatestJob(W, name)
  IN IF latest_job = 0 THEN W
     ELSE SetRow(W, latest_job,
                 [W.rows[latest_job] EXCEPT !.status = ParseJobStatus(color),
                                            !.url = JobUrl(name)])

\* the body of "for job in jobs" for one job
SyncJob(W, name, color, builds) ==
  {SyncLatest(W1, name, color) : W1 \in SyncBuilds({W}, name, builds, MaxBuild)}

RECURSIVE SyncJobs(_, _, _, _, _)
SyncJobs(Ws, jobs, k, colors, builds) ==
  IF k > Len(jobs) THEN Ws
  ELSE SyncJobs(UNION {SyncJob(W, jobs[k], colors[jobs[k]], builds[jobs[k]]) : W \in Ws},
                jobs, k + 1, colors, builds)

\* sync_jenkins_jobs(service, db)
SyncJenkinsJobs(W, jobs, colors, builds) ==
  {Commit(W1) : W1 \in SyncJobs({W}, jobs, 1, colors, builds)}

\* ---- sync_jenkins_jobs, builds as get_job_builds lists them -----------------

\* an entry of the list: number is 0 when the entry has none, url is empty
\* when it has none; an entry with a number carries the URL of its build
RawBuilds(name) ==
  {b \in [number : 0..MaxBuild,
          url : {<< >>, JobUrl(name)} \cup {JenkinsBuildUrl(name, n) : n \in BuildNums},
          result : BuildResults, timestamp : {0}] :
     b.number # 0 => b.url = JenkinsBuildUrl(name, b.number)}

\* the lists of at most MaxBatch entries
BuildBatches(name) ==
  UNION {[1..k -> RawBuilds(name)] : k \in 0..MaxBatch}

\* an extraction that reads only the entry's number
BuildNumberNative(build) == build.number

\* the build number of an entry: its number, else the trailing segment of
\* its URL when that is numeric, else none (0)
BuildNumber(build) ==
  IF build.number # 0 THEN build.number
  ELSE IF build.url # << >> /\ ParseInt(build.url[Len(build.url)]) # 0
       THEN ParseInt(build.url[Len(build.url)])
       ELSE 0

\* "for build in builds" over a list: an entry without a build number is
\* skipped (continue)
RECURSIVE SyncBatch(_, _, _, _)
SyncBatch(Ws, name, batch, k) ==
  IF k > Len(batch) THEN Ws
  ELSE LET build == batch[k]
           build_number == BuildNumber(build)
       IN SyncBatch(IF build_number = 0 THEN Ws
                    ELSE UNION {SyncBuildAt(W, name, build_number, build, build.url) :
                                  W \in Ws},
                    name, batch, k + 1)

\* sync_jenkins_jobs(service, db) for one job and the list of its builds
SyncJenkinsBatch(W, name, color, batch) ==
  {Commit(SyncLatest(W1, name, color)) : W1 \in SyncBatch({W}, name, batch, 1)}

\* ---- sync_jenkins_jobs, with the requests to Jenkins ------------------------

\* the jobs get_formatted_jobs lists, in order
PolledJobs == <<"Foo", "Bar">>

\* how a request for the builds of a job can end: answered with status 200
\* and the builds, or with a connection error, a timeout or another status
FetchOutcomes(name) ==
  {[kind |-> k, builds |-> << >>] : k \in {"connection", "timeout", "status"}} \cup
  {[kind |-> "ok", builds |-> b] : b \in BuildLists(name)}

\* JenkinsService._make_request: the decoded answer, or None when the
\* request raised a RequestException or the status was not 200
MakeRequest(o) ==
  IF o.kind = "ok" THEN [none |-> FALSE, builds |-> o.builds]
  ELSE [none |-> TRUE, builds |-> << >>]

\* JenkinsService.get_job_builds: the builds of the answer, [] without one
GetJobBuilds(o) ==
  LET data == MakeRequest(o)
  IN IF ~data.none THEN data.builds ELSE << >>

\* a loop over the jobs that ends at the first job whose builds could not be
\* fetched
RECURSIVE SyncFetchedJobsUntilFailure(_, _, _, _, _)
SyncFetchedJobsUntilFailure(Ws, jobs, k, colors, fetch) ==
  IF k > Len(jobs) \/ MakeRequest(fetch[jobs[k]]).none THEN Ws
  ELSE SyncFetchedJobsUntilFailure(
         UNION {SyncJob(W, jobs[k], colors[jobs[k]], GetJobBuilds(fetch[jobs[k]])) :
                  W \in Ws},
         jobs, k + 1, colors, fetch)

\* "for job in jobs", each job's builds fetched as the loop reaches it
RECURSIVE SyncFetchedJobs(_, _, _, _, _)
SyncFetchedJobs(Ws, jobs, k, colors, fetch) ==
  IF k > Len(jobs) THEN Ws
  ELSE SyncFetchedJobs(
         UNION {SyncJob(W, jobs[k], colors[jobs[k]], GetJobBuilds(fetch[jobs[k]])) :
                  W \in Ws},
         jobs, k + 1, colors, fetch)

\* sync_jenkins_jobs(service, db) over the listed jobs
SyncJenkinsFetched(W, jobs, colors, fetch) ==
  {Commit(W1) : W1 \in SyncFetchedJobs({W}, jobs, 1, colors, fetch)}

\* ---- sync_jenkins_jobs, a build whose reconciliation raises -----------------

\* the listed builds, each with its number, and whether the statements that
\* prepare its reconciliation raise (build['duration'] / 1000 on a value
\* that is no number, _convert_timestamp on a timestamp out of range, a
\* failing query)
FaultyBatches(name) ==
  UNION {[1..k -> [build : {b \in RawBuilds(name) : b.number # 0}, raises : BOOLEAN]] :
           k \in 0..MaxBatch}

\* "for build in builds": no statement of the loop body is inside a try, so
\* the first error leaves the loop and the function; exc tells whether one
\* was raised
RECURSIVE SyncFaultyBatch(_, _, _, _)
SyncFaultyBatch(Rs, name, batch, k) ==
  IF k > Len(batch) THEN Rs
  ELSE SyncFaultyBatch(
         UNION {IF R.exc THEN {R}
                ELSE IF batch[k].raises THEN {[w |-> R.w, exc |-> TRUE]}
                ELSE {[w |-> W1, exc |-> FALSE] :
                        W1 \in SyncBuildAt(R.w, name, batch[k].build.number,
                                           batch[k].build, batch[k].build.url)} :
                  R \in Rs},
         name, batch, k + 1)

\* sync_jenkins_jobs(service, db) for one job: after an error neither the
\* latest-job step nor db.commit() is reached, and the session is closed
\* with what it had committed before
SyncJenkinsFaulty(W, name, color, batch) ==
  {IF R.exc THEN R.w ELSE Commit(SyncLatest(R.w, name, color)) :
     R \in SyncFaultyBatch({[w |-> W, exc |-> FALSE]}, name, batch, 1)}

\* ---- auto_sync_jenkins ----------------------------------------------------

\* a query that also answers with the rows already notified
RecentFailuresAll(W) ==
  {i \in DOMAIN W.db : /\ W.db[i].provider = "jenkins"
                       /\ W.db[i].status = "failure"
                       /\ W.db[i].started_at # 0
                       /\ W.db[i].started_at >= Now - WindowMinutes}

\* the recent_failures query
RecentFailures(W) ==
  {i \in DOMAIN W.db : /\ W.db[i].provider = "jenkins"
                       /\ W.db[i].status = "failure"
                       /\ W.db[i].notified = FALSE
                       /\ W.db[i].started_at # 0
                       /\ W.db[i].started_at >= Now - WindowMinutes}

\* "for failure in recent_failures", in id order
RECURSIVE Sweep(_, _)
Sweep(W, todo) ==
  IF todo = {} THEN {W}
  ELSE LET i == CHOOSE x \in todo : \A y \in todo : x <= y
       IN UNION {Sweep(W1, todo \ {i}) : W1 \in SendFailureAlert(W, i, TRUE, W.rows[i].status)}

AutoSyncJenkins(W, jobs, colors, builds) ==
  UNION {Sweep(W1, RecentFailures(W1)) : W1 \in SyncJenkinsJobs(W, jobs, colors, builds)}

\* ---- POST /webhooks/jenkins -------------------------------------------------

\* get_build_details answered nothing (Jenkins unreachable, or no such build)
NoDetails == [result |-> "none", timestamp |-> 0]

\* what get_build_details can answer for a build
DetailsOf(name, bn) ==
  {NoDetails} \cup {d \in BuildObs : d.timestamp \in TimesOf(name, bn)}

\* sync_build_to_pipeline_runs, the update branch; the function then ends in
\* "return new_run" with new_run unbound: the error is caught after the
\* commit and None (0) is returned
HookExisting(W, ex, bn, build_status, started_at, u) ==
  LET old == W.rows[ex]
      W1 == SetRow(Observe(W, ex, build_status), ex,
                   [old EXCEPT !.status = build_status,
                               !.started_at = started_at,
                               !.build_number = bn,
                               !.url = IF u # <<>> THEN HookUrl(u, bn) ELSE @])
      Ws == IF /\ build_status = "failure"
               /\ W1.rows[ex].status # "failure"
               /\ ~W1.rows[ex].notified
            THEN SendFailureAlert(W1, ex, TRUE, build_status)
            ELSE {W1}
  IN {[w |-> Commit(W2), ret |-> 0] : W2 \in Ws}

\* sync_build_to_pipeline_runs, the insert branch
HookNew(W, name, bn, build_status, started_at, u) ==
  LET id == W.nextId
      complete_url == IF u # <<>> THEN HookUrl(u, bn) ELSE <<>>
      W1 == AddRow(Observe(W, id, build_status),
                   NewRun("jenkins", name, bn, build_status, started_at, complete_url))
      Ws == IF build_status = "failure" THEN SendFailureAlert(W1, id, TRUE, build_status) ELSE {W1}
  IN {[w |-> Commit(W2), ret |-> id] : W2 \in Ws}

\* sync_build_to_pipeline_runs(build_info, jenkins_service, db): the sessions
\* it can leave, each with the id of the returned record (0 for None)
SyncBuildToPipelineRuns(W, name, bn, details) ==
  IF details = NoDetails THEN {[w |-> W, ret |-> 0]}
  ELSE LET build_status == ParseBuildStatus(details.result)
           started_at == IF details.timestamp # 0
                         THEN ConvertTimestamp(details.timestamp) ELSE 0
           u == JenkinsBuildUrl(name, bn)
           existing_run == FindRun(W, name, bn)
       IN IF existing_run # 0
          THEN HookExisting(W, existing_run, bn, build_status, started_at, u)
          ELSE HookNew(W, name, bn, build_status, started_at, u)

\* jenkins_webhook(request, db), for a payload extract_build_info accepts
HandleJenkinsWebhook(W, name, bn, details) ==
  UNION {LET Ws == IF /\ R.ret # 0
                      /\ R.w.rows[R.ret].status = "failure"
                      /\ ~R.w.rows[R.ret].notified
                   THEN SendFailureAlert(R.w, R.ret, TRUE, R.w.rows[R.ret].status)
                   ELSE {R.w}
         IN {IF R.ret # 0 THEN BroadcastEvent(W2, R.ret) ELSE W2 : W2 \in Ws}
           : R \in SyncBuildToPipelineRuns(W, name, bn, details)}

\* the bodies POSTed to /webhooks/jenkins: json says whether the body parses,
\* keys are the top-level keys of the parsed object, build is the kind of
\* value it holds under 'build'
Payloads == [json : BOOLEAN, keys : SUBSET {"build", "name"}, build : {"dict", "text"}]

\* extract_build_info(payload): "info" for a dictionary, "none" for None; the
\* second branch of the function is shadowed by the first, and build.get on a
\* value that is no dictionary raises inside the function's own try
ExtractBuildInfo(p) ==
  IF "build" \in p.keys
  THEN IF p.build = "dict" THEN "info" ELSE "none"
  ELSE "none"

\* what the try block of jenkins_webhook raises before it reaches the
\* reconcile: the decoding error of request.json(), or its own
\* HTTPException(status_code=400)
RaisedInTry(p) ==
  IF ~p.json THEN "JSONDecodeError"
  ELSE IF ExtractBuildInfo(p) = "none" THEN "HTTPException(400)"
  ELSE "-"

\* the status jenkins_webhook answers with when the reconcile is not
\* reached or has returned: "except Exception" also catches the
\* HTTPException raised in the try block and raises HTTPException(500)
WebhookStatus(p) == IF RaisedInTry(p) # "-" THEN 500 ELSE 200

\* what extract_build_info evaluates to: a dict, None, or an exception raised
InfoOf(job_name, build) ==
  [kind |-> "info", job_name |-> job_name, build_number |-> build.number,
   url |-> IF build.full_url.kind = "str" THEN build.full_url.u ELSE << >>]
NoInfo == [kind |-> "None"]
InfoRaised == [kind |-> "raise"]

\* the job name taken from full_url: the text between the first '/job/' and
\* the next '/', None (<< >>) without a '/job/'
JobNameOf(full_url) ==
  IF full_url.kind = "str" /\ HasJob(full_url.u)
  THEN IF JobParts(full_url.u) = << >> THEN <<"">> ELSE <<JobParts(full_url.u)[1]>>
  ELSE << >>

\* the statements inside the try of extract_build_info.  'build' in payload
\* raises for a payload that is no container; build.get raises for a value
\* that is no dict; '/job/' in full_url raises for a value that is no str.
\* The elif is reached only when 'build' is not in payload, where its
\* condition is false.
ExtractBody(p) ==
  IF p.kind = "int" THEN InfoRaised
  ELSE IF p.kind = "dict" /\ "build" \in p.keys
  THEN IF p.build.kind # "dict" THEN InfoRaised
       ELSE IF p.build.full_url.kind = "other" THEN InfoRaised
       ELSE InfoOf(JobNameOf(p.build.full_url), p.build)
  ELSE IF p.kind = "dict" /\ "name" \in p.keys /\ "build" \in p.keys
  THEN InfoOf(<<p.name>>, p.build)
  ELSE NoInfo

\* extract_build_info(payload): except Exception returns None
extract_build_info(p) ==
  IF ExtractBody(p) = InfoRaised THEN NoInfo ELSE ExtractBody(p)

\* ---- JenkinsService._get_build_user -----------------------------------------

\* A text is a sequence of pieces; << >> is the empty text, and a key that is
\* absent reads like one that holds an empty text ("'userId' in cause and
\* cause['userId']").  StartedBy is the phrase 'Started by user'.
StartedBy == "Started by user"
Blank == " "

\* desc.replace('Started by user', '')
RECURSIVE RemoveStartedBy(_)
RemoveStartedBy(t) ==
  IF t = << >> THEN << >>
  ELSE IF Head(t) = StartedBy THEN RemoveStartedBy(Tail(t))
  ELSE <<Head(t)>> \o RemoveStartedBy(Tail(t))

\* str.strip()
RECURSIVE StripText(_)
StripText(t) ==
  IF t = << >> THEN << >>
  ELSE IF Head(t) = Blank THEN StripText(Tail(t))
  ELSE IF t[Len(t)] = Blank THEN StripText(SubSeq(t, 1, Len(t) - 1))
  ELSE t

\* the user parsed from a shortDescription, << >> when the loop goes on
DescribedUser(desc) ==
  IF \E k \in DOMAIN desc : desc[k] = StartedBy
  THEN StripText(RemoveStartedBy(desc))
  ELSE << >>

\* a cause read with userName before userId
CauseActorNameFirst(c) ==
  IF c.kind # "dict" THEN << >>
  ELSE IF c.userName # << >> THEN c.userName
  ELSE IF c.userId # << >> THEN c.userId
  ELSE IF c.desc # << >> THEN DescribedUser(c.desc)
  ELSE << >>

\* the if/elif chain for one cause: what it returns, << >> when it returns
\* nothing and the loop goes on
CauseActor(c) ==
  IF c.kind # "dict" THEN << >>
  ELSE IF c.userId # << >> THEN c.userId
  ELSE IF c.userName # << >> THEN c.userName
  ELSE IF c.desc # << >> THEN DescribedUser(c.desc)
  ELSE << >>

\* "for cause in causes"
RECURSIVE CausesActor(_)
CausesActor(causes) ==
  IF causes = << >> THEN << >>
  ELSE IF CauseActor(Head(causes)) # << >> THEN CauseActor(Head(causes))
  ELSE CausesActor(Tail(causes))

\* the if/elif chain for one action
ActionActor(a) ==
  IF a.kind # "dict" THEN << >>
  ELSE IF a.userId # << >> THEN a.userId
  ELSE IF a.userName # << >> THEN a.userName
  ELSE IF a.hasCauses THEN CausesActor(a.causes)
  ELSE << >>

\* "for action in actions"
RECURSIVE ActionsActor(_)
ActionsActor(actions) ==
  IF actions = << >> THEN << >>
  ELSE IF ActionActor(Head(actions)) # << >> THEN ActionActor(Head(actions))
  ELSE ActionsActor(Tail(actions))

\* _get_build_user(build)
get_build_user(build) ==
  IF CausesActor(build.causes) # << >> THEN CausesActor(build.causes)
  ELSE IF ActionsActor(build.actions) # << >> THEN ActionsActor(build.actions)
  ELSE <<"Ravitosh">>

\* ---- POST /github and POST /jenkins ----------------------------------------

PushStatuses == {"Failed", "PASSED"}

\* an Optional[datetime] of the payload: None, or an instant in seconds, naive
\* or carrying a UTC offset
NoTime == [none |-> TRUE, secs |-> 0, aware |-> FALSE]
SomeTime(t, aware) == [none |-> FALSE, secs |-> t, aware |-> aware]

\* what a Python expression evaluates to: None, a float, or a TypeError raised
PyNone == [kind |-> "None", v |-> 0]
PyFloat(x) == [kind |-> "float", v |-> x]
PyTypeError == [kind |-> "TypeError", v |-> 0]

\* datetime.__sub__ and timedelta.total_seconds: a naive and an aware datetime
\* cannot be subtracted
TotalSeconds(later, earlier) ==
  IF later.aware # earlier.aware THEN PyTypeError
  ELSE PyFloat(later.secs - earlier.secs)

\* a duration that is the distance between the two instants
compute_duration_abs(started_at, finished_at) ==
  IF ~started_at.none /\ ~finished_at.none
  THEN LET d == TotalSeconds(finished_at, started_at)
       IN IF d.kind = "float" /\ d.v < 0 THEN PyFloat(0 - d.v) ELSE d
  ELSE PyNone

\* compute_duration_seconds(started_at, finished_at); a datetime is truthy
compute_duration_seconds(started_at, finished_at) ==
  IF ~started_at.none /\ ~finished_at.none
  THEN TotalSeconds(finished_at, started_at)
  ELSE PyNone
PushTimes == {0, Now}
PushUrls(name) == {<<>>}

\* the payload's url when it names a build of the job
PushBuildUrls(name) == {JenkinsBuildUrl(name, bn) : bn \in BuildNums}

\* a handler that looks the pipeline up and updates the record it finds
PushWebhookUpsert(W, provider, name, raw, started, u) ==
  LET st    == NormalizeStatus(raw)
      found == {i \in DOMAIN W.rows : /\ W.rows[i].provider = provider
                                      /\ W.rows[i].pipeline_name = name}
      id    == IF found = {} THEN W.nextId
               ELSE CHOOSE x \in found : \A y \in found : x <= y
      W0    == IF found = {}
               THEN AddRow(Observe(W, id, st), NewRun(provider, name, 0, st, started, u))
               ELSE SetRow(Observe(W, id, st), id,
                           [W.rows[id] EXCEPT !.status = st, !.started_at = started])
      W1    == BroadcastEvent(Commit(W0), id)
  IN IF st = "failure" THEN SendFailureAlert(W1, id, FALSE, st) ELSE {W1}

\* github_webhook / jenkins_webhook(payload, db): the row is committed, then
\* send_failure_alert(run) is called without a session
PushWebhook(W, provider, name, raw, started, u) ==
  LET id == W.nextId
      st == NormalizeStatus(raw)
      W0 == Commit(AddRow(Observe(W, id, st), NewRun(provider, name, 0, st, started, u)))
      W1 == BroadcastEvent(W0, id)
  IN IF st = "failure" THEN SendFailureAlert(W1, id, FALSE, st) ELSE {W1}

\* ---- GET /metrics -------------------------------------------------------------

\* the filter of "if time_from": a row passes when its start or its end is
\* known and not before time_from
FromFilter(r, time_from) ==
  \/ (~r.started_at.none /\ r.started_at.secs >= time_from.secs)
  \/ (~r.finished_at.none /\ r.finished_at.secs >= time_from.secs)

\* the filter of "if time_to"
ToFilter(r, time_to) ==
  \/ (~r.started_at.none /\ r.started_at.secs <= time_to.secs)
  \/ (~r.finished_at.none /\ r.finished_at.secs <= time_to.secs)

\* query, after the filters of the bounds that are given
MetricsQuery(rows, time_from, time_to) ==
  LET Pass(r) == /\ (time_from.none \/ FromFilter(r, time_from))
                 /\ (time_to.none \/ ToFilter(r, time_to))
  IN SelectSeq(rows, Pass)

\* query.filter(status == st).count()
StatusCount(q, st) ==
  LET Is(r) == r.status = st IN Len(SelectSeq(q, Is))

\* n / d cut to an integer
RoundDown(n, d) == n \div d

\* n / d rounded to the nearest integer, a tie to the even one
RoundHalfEven(n, d) ==
  LET q == n \div d
      r == n % d
  IN IF 2 * r < d THEN q
     ELSE IF 2 * r > d THEN q + 1
     ELSE IF q % 2 = 0 THEN q ELSE q + 1

\* round((success / total) * 100, 2) if total > 0 else 0.0, in hundredths
SuccessRate(success, total) ==
  IF total > 0 THEN RoundHalfEven(10000 * success, total) ELSE 0

\* get_metrics(time_from, time_to, db): rows is the table in the order of its
\* ids; success_rate is in hundredths
get_metrics(rows, time_from, time_to) ==
  LET query == MetricsQuery(rows, time_from, time_to)
      total == Len(query)
      success == StatusCount(query, "success")
  IN [total_runs |-> total,
      success_count |-> success,
      failure_count |-> StatusCount(query, "failure"),
      running_count |-> StatusCount(query, "running"),
      success_rate |-> SuccessRate(success, total),
      last_build_status |-> IF total > 0 THEN query[total].status ELSE "None"]

\* ---- POST /jenkins/force-update ---------------------------------------------

\* the row's URL names a job and a build number
ForceParsable(r) ==
  /\ r.url # <<>>
  /\ HasJob(r.url)
  /\ Len(JobParts(r.url)) >= 2
  /\ ParseInt(JobParts(r.url)[2]) # 0

\* the body of "for existing_job in existing_jobs" for one row; det is what
\* get_build_details answers for it
ForceOne(W, id, det) ==
  IF ~ForceParsable(W.rows[id]) \/ det = NoDetails THEN {W}
  ELSE LET build_status == ParseBuildStatus(det.result)
           W0 == Observe(W, id, build_status)
           Ws == IF /\ build_status = "failure"
                    /\ W0.rows[id].status # "failure"
                    /\ ~W0.rows[id].notified
                 THEN SendFailureAlert(W0, id, TRUE, build_status)
                 ELSE {W0}
       IN {SetRow(W1, id, [W1.rows[id] EXCEPT !.status = build_status]) : W1 \in Ws}

RECURSIVE ForceAll(_, _, _)
ForceAll(Ws, todo, dets) ==
  IF todo = {} THEN Ws
  ELSE LET i == CHOOSE x \in todo : \A y \in todo : x <= y
       IN ForceAll(UNION {ForceOne(W, i, dets[i]) : W \in Ws}, todo \ {i}, dets)

\* force_update_jenkins_jobs(service, db)
ForceUpdateJenkinsJobs(W, dets) ==
  {Commit(W1) : W1 \in ForceAll({W}, {i \in DOMAIN W.db : W.db[i].provider = "jenkins"},
                                dets)}

\* ---- POST /jenkins/update-build-numbers --------------------------------------

\* the body of "for record in jenkins_records" for one row
UpdateOne(W, id) ==
  LET r == W.rows[id]
  IN IF /\ r.url # <<>>
        /\ HasJob(r.url)
        /\ r.build_number = 0
        /\ Len(JobParts(r.url)) >= 2
        /\ ParseInt(JobParts(r.url)[2]) # 0
     THEN SetRow(W, id, [r EXCEPT !.build_number = ParseInt(JobParts(r.url)[2])])
     ELSE W

RECURSIVE UpdateAll(_, _)
UpdateAll(W, todo) ==
  IF todo = {} THEN W
  ELSE LET i == CHOOSE x \in todo : \A y \in todo : x <= y
       IN UpdateAll(UpdateOne(W, i), todo \ {i})

\* update_build_numbers(service, db)
UpdateBuildNumbers(W) ==
  Commit(UpdateAll(W, {i \in DOMAIN W.db : W.db[i].provider = "jenkins"}))

\* ---- DELETE /runs/{run_id} ---------------------------------------------------

\* the function f without the argument i
Without(f, i) == [j \in DOMAIN f \ {i} |-> f[j]]

\* delete_run(run_id, db)
DeleteRow(W, id) ==
  Commit([W EXCEPT !.rows = Without(@, id), !.epi[id] = 0, !.ever[id] = FALSE])

\* ---- the state machine ----------------------------------------------------

\* a thread between operations
Idle ==
  [pc |-> "idle", ex |-> 0, st |-> "-", color |-> "-", new |-> <<>>,
   objs |-> <<>>, todo |-> {}, ret |-> 0]

\* the clients of GET /stream
Subs == 1..NumSubs

\* asyncio.Queue(): nothing put, no generator waiting in get().  sent counts
\* the events put, heard[n] is the set of clients that were connected when
\* event n was put, got[s] is what the generator of client s has yielded
NoStream ==
  [queue |-> << >>, getters |-> << >>, sent |-> 0, heard |-> << >>,
   got |-> [s \in Subs |-> << >>]]

InitRuns ==
  /\ store = << >>
  /\ nextId = 1
  /\ tick = 1
  /\ opk = "init"
  /\ tgt = 0
  /\ tnew = FALSE
  /\ tobs = "-"
  /\ tatt = 0
  /\ tevs = << >>
  /\ epi = [i \in Ids |-> 0]
  /\ ever = [i \in Ids |-> FALSE]
  /\ proc = [p \in Procs |-> Idle]
  /\ cyc = [pc |-> "idle", open |-> FALSE]
  /\ sse = NoStream
  /\ misfires = {}

\* no function is being applied on its own
NoArg == [kind |-> "-"]

Init == InitRuns /\ fn = "-" /\ arg = NoArg /\ res = "-"

\* the operation is over and its session closed: the store holds what the
\* session committed; the history of the operation is kept when h is set
FinishData(W, kind, h) ==
  /\ W.nextId <= MaxId + 1
  /\ store' = W.db
  /\ nextId' = W.nextId
  /\ epi' = W.epi
  /\ ever' = W.ever
  /\ misfires' = W.bad
  /\ IF h THEN /\ opk' = kind /\ tgt' = W.tgt /\ tnew' = W.tnew
               /\ tobs' = W.tobs /\ tatt' = W.tatt /\ tevs' = W.evq
          ELSE UNCHANGED <<opk, tgt, tnew, tobs, tatt, tevs>>

\* the same for an operation that is no cycle of the scheduled job
FinishRuns(W, kind, h) == FinishData(W, kind, h) /\ UNCHANGED <<tick, proc, cyc, sse>>

Finish(W, kind, h) == FinishRuns(W, kind, h) /\ UNCHANGED call

\* POST /jenkins/sync and /jenkins/sync-now
ManualSync(h) ==
  \/ \E W \in SyncJenkinsJobs(Session, <<>>, <<>>, <<>>) : Finish(W, "sync", h)
  \/ \E name \in JobNames, c \in JobColors :
       \E b \in BuildLists(name) :
         \E W \in SyncJenkinsJobs(Session, <<name>>, (name :> c), (name :> b)) :
           Finish(W, "sync", h)

\* one run of the scheduled job
AutoSync(h) ==
  \/ \E W \in AutoSyncJenkins(Session, <<>>, <<>>, <<>>) : Finish(W, "auto_sync", h)
  \/ \E name \in JobNames, c \in JobColors :
       \E b \in BuildLists(name) :
         \E W \in AutoSyncJenkins(Session, <<name>>, (name :> c), (name :> b)) :
           Finish(W, "auto_sync", h)

\* POST /webhooks/jenkins
JenkinsWebhook(h) ==
  \E name \in JobNames, bn \in BuildNums :
    \E details \in DetailsOf(name, bn) :
      \E W \in HandleJenkinsWebhook(Session, name, bn, details) :
        Finish(W, "webhook", h)

\* POST /github
GithubPush(h) ==
  \E name \in JobNames, raw \in PushStatuses, started \in PushTimes :
    \E W \in PushWebhook(Session, "github", name, raw, started, <<>>) :
      Finish(W, "push", h)

\* POST /jenkins
JenkinsPush(h) ==
  \E name \in JobNames, raw \in PushStatuses, started \in PushTimes :
    \E u \in PushUrls(name) :
      \E W \in PushWebhook(Session, "jenkins", name, raw, started, u) :
        Finish(W, "push", h)

\* POST /jenkins, the payload carrying the URL of the build
JenkinsPushAt(h) ==
  \E name \in JobNames, raw \in PushStatuses :
    \E u \in PushBuildUrls(name) :
      \E W \in PushWebhook(Session, "jenkins", name, raw, 0, u) :
        Finish(W, "push", h)

\* POST /jenkins/force-update
ForceUpdate(h) ==
  \E dets \in [{i \in DOMAIN store : store[i].provider = "jenkins"
                                     /\ ForceParsable(store[i])}
               -> [result : BuildResults, timestamp : {0}] \cup {NoDetails}] :
    \E W \in ForceUpdateJenkinsJobs(Session,
               [i \in DOMAIN store |-> IF i \in DOMAIN dets THEN dets[i] ELSE NoDetails]) :
      Finish(W, "force", h)

\* DELETE /runs/{run_id}
DeleteRun(h) ==
  \E id \in DOMAIN store : Finish(DeleteRow(Session, id), "delete", h)

\* POST /jenkins/update-build-numbers
UpdateNumbers(h) ==
  \E W \in {UpdateBuildNumbers(Session)} : Finish(W, "numbers", h)

\* time passes
Tick ==
  /\ tick < MaxTick
  /\ tick' = tick + 1
  /\ UNCHANGED <<store, nextId, opk, tgt, tnew, tobs, tatt, tevs, epi, ever, proc, call, cyc, sse,
               misfires>>

Next ==
  \/ ManualSync(FALSE) \/ AutoSync(FALSE) \/ JenkinsWebhook(FALSE)
  \/ GithubPush(FALSE) \/ JenkinsPush(FALSE) \/ ForceUpdate(FALSE)
  \/ DeleteRun(FALSE) \/ Tick

Spec == Init /\ [][Next]_vars

\* POST /webhooks/jenkins with a body the handler does not reconcile
RejectedWebhook ==
  \E p \in Payloads :
    /\ RaisedInTry(p) # "-"
    /\ FinishRuns(Session, "rejected", TRUE)
    /\ fn' = "jenkins_webhook"
    /\ arg' = [kind |-> "payload", payload |-> p]
    /\ res' = WebhookStatus(p)

NextM == JenkinsWebhook(TRUE) \/ RejectedWebhook \/ Tick

\* POST /webhooks/jenkins alone, with bodies of every shape
SpecM == Init /\ [][NextM]_vars

NextK ==
  \/ ManualSync(FALSE) \/ JenkinsWebhook(FALSE) \/ JenkinsPushAt(FALSE)
  \/ UpdateNumbers(FALSE) \/ ForceUpdate(FALSE) \/ DeleteRun(FALSE)

\* the operations that write build numbers: poll syncs, both Jenkins webhook
\* endpoints, update-build-numbers, force-update, delete
SpecK == Init /\ [][NextK]_vars

\* POST /jenkins/sync while Jenkins lists the builds of a job in a batch
BatchSync ==
  \E name \in JobNames, c \in JobColors :
    \E batch \in BuildBatches(name) :
      \E W \in SyncJenkinsBatch(Session, name, c, batch) :
        /\ fn = "-"
        /\ FinishRuns(W, "batch", TRUE)
        /\ fn' = "sync_jenkins_jobs"
        /\ arg' = [kind |-> "batch", name |-> name, color |-> c, builds |-> batch]
        /\ res' = "-"

\* POST /webhooks/jenkins as the first operation, before the sync
WebhookBefore ==
  opk = "init" /\ JenkinsWebhook(TRUE)

NextB == BatchSync \/ WebhookBefore

\* one poll sync over a list of builds, some of them without a number, on
\* the empty store or after one webhook reconcile
SpecB == Init /\ [][NextB]_vars

\* POST /jenkins/sync over two jobs, each request for builds ending in one
\* of its ways
FetchSync ==
  \E c \in JobColors :
    \E fetch \in [Foo : FetchOutcomes("Foo"), Bar : FetchOutcomes("Bar")] :
      \E W \in SyncJenkinsFetched(Session, PolledJobs, [Foo |-> c, Bar |-> c], fetch) :
        /\ fn = "-"
        /\ FinishRuns(W, "fetch_sync", TRUE)
        /\ fn' = "sync_jenkins_jobs"
        /\ arg' = [kind |-> "fetch", fetch |-> fetch]
        /\ res' = "-"

NextJ == FetchSync \/ WebhookBefore

\* one poll sync over two jobs, on the empty store or after one webhook
\* reconcile
SpecJ == Init /\ [][NextJ]_vars

\* POST /jenkins/sync over a list of builds, some of which raise
FaultySync ==
  \E name \in JobNames, c \in JobColors :
    \E batch \in FaultyBatches(name) :
      \E W \in SyncJenkinsFaulty(Session, name, c, batch) :
        /\ fn = "-"
        /\ FinishRuns(W, "faulty_sync", TRUE)
        /\ fn' = "sync_jenkins_jobs"
        /\ arg' = [kind |-> "faulty", name |-> name, builds |-> batch]
        /\ res' = "-"

NextF == FaultySync \/ WebhookBefore

\* one poll sync over a list of builds, some of which raise, on the empty
\* store or after one webhook reconcile
SpecF == Init /\ [][NextF]_vars

\* ---- one cycle of the scheduled job, statement by statement ----------------

\* what a request or a cycle works on, apart from the clock
data == <<store, nextId, opk, tgt, tnew, tobs, tatt, tevs, epi, ever, misfires>>

\* a finally clause that leaves the session as it is
LeaveSessionOpen(c) == [c EXCEPT !.pc = "idle"]

\* finally: if 'db' in locals(): db.close()
CloseSession(c) == [pc |-> "idle", open |-> FALSE]

\* the scheduler calls auto_sync_jenkins: the imports and next(get_db())
\* either give the cycle its session or raise
CycleBegin ==
  /\ cyc.pc = "idle"
  /\ \/ cyc' = [pc |-> "body", open |-> TRUE]
     \/ cyc' = [pc |-> "except", open |-> FALSE]
  /\ UNCHANGED <<data, tick, proc, call, sse>>

\* the sync and the sweep return
CycleReturns ==
  /\ cyc.pc = "body"
  /\ \E name \in JobNames, c \in JobColors :
       \E b \in BuildLists(name) :
         \E W \in AutoSyncJenkins(Session, <<name>>, (name :> c), (name :> b)) :
           FinishData(W, "auto_sync", FALSE)
  /\ cyc' = [cyc EXCEPT !.pc = "finally"]
  /\ UNCHANGED <<tick, proc, call, sse>>

\* the sync raises before its commit, or the query of the sweep raises after
\* it: the session keeps what it had committed
CycleRaises ==
  /\ cyc.pc = "body"
  /\ \E name \in JobNames, c \in JobColors :
       \E b \in BuildLists(name) :
         \E W \in SyncJobs({Session}, <<name>>, 1, (name :> c), (name :> b))
                    \cup SyncJenkinsJobs(Session, <<name>>, (name :> c), (name :> b)) :
           FinishData(W, "auto_sync", FALSE)
  /\ cyc' = [cyc EXCEPT !.pc = "except"]
  /\ UNCHANGED <<tick, proc, call, sse>>

\* except Exception as e: logging.error(...)
CycleExcept ==
  /\ cyc.pc = "except"
  /\ cyc' = [cyc EXCEPT !.pc = "finally"]
  /\ UNCHANGED <<data, tick, proc, call, sse>>

\* finally
CycleFinally ==
  /\ cyc.pc = "finally"
  /\ cyc' = CloseSession(cyc)
  /\ UNCHANGED <<data, tick, proc, call, sse>>

NextL == CycleBegin \/ CycleReturns \/ CycleRaises \/ CycleExcept \/ CycleFinally

\* the scheduled job alone: the interval trigger fires again and again, and
\* every statement of a cycle ends (the requests to Jenkins and to Slack
\* carry timeouts)
SpecL == Init /\ [][NextL]_vars /\ WF_vars(NextL)

\* POST /github, the submission and the id of the record returned kept
GithubSubmit ==
  \E name \in JobNames, raw \in PushStatuses, started \in PushTimes :
    \E W \in PushWebhook(Session, "github", name, raw, started, <<>>) :
      /\ FinishRuns(W, "push", TRUE)
      /\ fn' = "github_webhook"
      /\ arg' = [kind |-> "push", pipeline_name |-> name, status |-> raw,
                 started_at |-> started]
      /\ res' = W.tgt

NextG == GithubSubmit \/ WebhookBefore

SpecG == Init /\ [][NextG]_vars

\* ---- POST /jenkins/fresh-sync ------------------------------------------------

\* the session after the bulk delete of the Jenkins rows and its commit
DeleteJenkinsRuns(W) ==
  LET gone == {i \in DOMAIN W.rows : W.rows[i].provider = "jenkins"}
  IN  Commit([W EXCEPT
        !.rows = [j \in DOMAIN W.rows \ gone |-> W.rows[j]],
        !.epi = [j \in DOMAIN W.epi |-> IF j \in gone THEN 0 ELSE W.epi[j]],
        !.ever = [j \in DOMAIN W.ever |->
                    IF j \in gone THEN FALSE ELSE W.ever[j]]])

\* fresh_sync_jenkins(service, db): the delete, its commit, then the sync; a
\* sync that raises is rolled back to what was committed last
FreshSyncJenkins(W, jobs, colors, builds, raises) ==
  LET W0 == DeleteJenkinsRuns(W)
  IN  IF raises
        THEN {[W1 EXCEPT !.rows = W1.db] :
                W1 \in SyncJobs({W0}, jobs, 1, colors, builds)}
        ELSE SyncJenkinsJobs(W0, jobs, colors, builds)

\* the Jenkins records of the store
JenkinsRecords == {i \in DOMAIN store : store[i].provider = "jenkins"}

\* what get_jobs answered: nothing (Jenkins unavailable), or the jobs; the
\* records the store held at the call are kept with the call
FreshSync ==
  \/ \E W \in FreshSyncJenkins(Session, <<>>, <<>>, <<>>, FALSE) :
       /\ FinishRuns(W, "fresh_sync", TRUE)
       /\ fn' = "fresh_sync_jenkins"
       /\ arg' = [kind |-> "fresh", jobs |-> <<>>, raised |-> FALSE,
                  before |-> JenkinsRecords]
       /\ res' = "-"
  \/ \E name \in JobNames, c \in JobColors, raises \in BOOLEAN :
       \E b \in BuildLists(name) :
         \E W \in FreshSyncJenkins(Session, <<name>>, (name :> c),
                                   (name :> b), raises) :
           /\ FinishRuns(W, "fresh_sync", TRUE)
           /\ fn' = "fresh_sync_jenkins"
           /\ arg' = [kind |-> "fresh", jobs |-> <<name>>, raised |-> raises,
                      before |-> JenkinsRecords]
           /\ res' = "-"

NextX == FreshSync \/ WebhookBefore \/ GithubSubmit

SpecX == Init /\ [][NextX]_vars

\* the clients whose generator is running
Connected(q) == {q.getters[k] : k \in DOMAIN q.getters}

\* a broadcast that drops its events when no generator is waiting
PutNowaitDropping(q, evs) ==
  IF q.getters = << >>
  THEN [q EXCEPT !.sent = @ + Len(evs),
                 !.heard = @ \o [k \in 1..Len(evs) |-> {}]]
  ELSE [q EXCEPT !.queue = @ \o [k \in 1..Len(evs) |-> [n |-> q.sent + k, event |-> evs[k]]],
                 !.sent = @ + Len(evs),
                 !.heard = @ \o [k \in 1..Len(evs) |-> Connected(q)]]

\* broadcast_event(event) for each event of a handler: put_nowait
RECURSIVE PutNowait(_, _)
PutNowait(q, evs) ==
  IF evs = << >> THEN q
  ELSE PutNowait([q EXCEPT !.queue = Append(@, [n |-> q.sent + 1, event |-> Head(evs)]),
                           !.sent = @ + 1,
                           !.heard = Append(@, Connected(q))],
                 Tail(evs))

\* GET /stream: the response starts sse_event_generator(), which waits in
\* _event_queue.get()
StreamConnect ==
  \E s \in Subs \ Connected(sse) :
    /\ sse' = [sse EXCEPT !.getters = Append(@, s)]
    /\ UNCHANGED <<data, tick, proc, call, cyc>>

\* POST /github while clients may be connected
GithubBroadcast ==
  \E name \in JobNames, raw \in PushStatuses, started \in PushTimes :
    \E W \in PushWebhook(Session, "github", name, raw, started, <<>>) :
      /\ FinishData(W, "push", TRUE)
      /\ sse' = PutNowait(sse, W.evq)
      /\ UNCHANGED <<tick, proc, call, cyc>>

\* event = await _event_queue.get(); yield ...: the getter that has waited
\* longest takes the oldest event, yields it to its client and calls get()
\* again
StreamDeliver ==
  /\ sse.queue # << >> /\ sse.getters # << >>
  /\ LET s == Head(sse.getters)
     IN sse' = [sse EXCEPT !.queue = Tail(@),
                           !.getters = Append(Tail(@), s),
                           !.got[s] = Append(@, Head(sse.queue))]
  /\ UNCHANGED <<data, tick, proc, call, cyc>>

NextE == StreamConnect \/ GithubBroadcast \/ StreamDeliver

\* a generator waiting in get() is resumed when the queue holds an event
SpecE == Init /\ [][NextE]_vars /\ WF_vars(StreamDeliver)

NextH == ManualSync(TRUE) \/ AutoSync(TRUE) \/ JenkinsWebhook(TRUE) \/ Tick

\* the reconciles of Jenkins builds alone (poll syncs, poll cycles, native
\* webhook reconciles), keeping the history of the last operation
SpecH == Init /\ [][NextH]_vars

\* ---- functions applied on their own ---------------------------------------

\* the status texts a payload can carry, in lower case and without padding
StatusWords ==
  {<<"s", "u", "c", "c", "e", "s", "s">>,
   <<"s", "u", "c", "c", "e", "e", "d", "e", "d">>,
   <<"p", "a", "s", "s", "e", "d">>,
   <<"p", "a", "s", "s">>,
   <<"o", "k">>,
   <<"g", "r", "e", "e", "n">>,
   <<"f", "a", "i", "l", "u", "r", "e">>,
   <<"f", "a", "i", "l", "e", "d">>,
   <<"e", "r", "r", "o", "r">>,
   <<"e", "r", "r", "o", "r", "e", "d">>,
   <<"r", "e", "d">>,
   <<"c", "a", "n", "c", "e", "l", "l", "e", "d">>,
   <<"c", "a", "n", "c", "e", "l", "e", "d">>,
   <<"r", "u", "n", "n", "i", "n", "g">>,
   <<"i", "n", "_", "p", "r", "o", "g", "r", "e", "s", "s">>,
   <<"q", "u", "e", "u", "e", "d">>,
   <<"p", "e", "n", "d", "i", "n", "g">>,
   <<"u", "n", "s", "t", "a", "b", "l", "e">>,
   <<"a", "b", "o", "r", "t", "e", "d">>,
   <<"n", "o", "t", " ", "b", "u", "i", "l", "t">>,
   <<>>}

\* str.upper(), character by character
UpperChar(c) ==
  IF \E i \in 1..26 : LowerCase[i] = c
  THEN UpperCase[CHOOSE i \in 1..26 : LowerCase[i] = c]
  ELSE c

\* the spellings of a word: as it is, in capitals, capitalised
Spellings(w) ==
  {w, [i \in 1..Len(w) |-> UpperChar(w[i])],
      [i \in 1..Len(w) |-> IF i = 1 THEN UpperChar(w[i]) ELSE w[i]]}

\* the whitespace a text can come wrapped in: <<before, after>>
Paddings ==
  {<< << >>, << >> >>, << <<" ">>, << >> >>, << << >>, <<" ">> >>,
   << <<" ", "\t">>, <<"\n">> >>, << <<"\n">>, <<" ", " ">> >>}

\* the arguments of normalize_status: None, and every spelling of every
\* word in every padding; word is the text the argument was spelled from
StatusArgs ==
  {[kind |-> "status", raw |-> NoneStr, word |-> ""]} \cup
  UNION {{[kind |-> "status", raw |-> SomeStr(p[1] \o v \o p[2]), word |-> Str(w)] :
            v \in Spellings(w), p \in Paddings} : w \in StatusWords}

\* the results Jenkins reports for a build; a build in flight has none
ResultWords ==
  {<<"s", "u", "c", "c", "e", "s", "s">>,
   <<"f", "a", "i", "l", "u", "r", "e">>,
   <<"u", "n", "s", "t", "a", "b", "l", "e">>,
   <<"a", "b", "o", "r", "t", "e", "d">>,
   <<"n", "o", "t", "_", "b", "u", "i", "l", "t">>}

\* the arguments of _parse_build_status: build.get('result', '') is None for
\* a null result, '' for a missing one
ResultArgs ==
  {[kind |-> "result", raw |-> NoneStr], [kind |-> "result", raw |-> SomeStr(<< >>)]} \cup
  {[kind |-> "result", raw |-> SomeStr(v)] : v \in UNION {Spellings(w) : w \in ResultWords}}

\* the names of the jobs whose URLs are normalised, and their build numbers
UrlJobs == {<<"F", "o", "o">>, <<"D", "e", "p", "l", "o", "y">>}
UrlBuilds == {6, 42}

\* http://host/job/<name>, the base URL of a job, without a trailing slash
BaseUrl(name) ==
  <<"h", "t", "t", "p", ":", "/", "/", "h", "o", "s", "t", "/", "j", "o", "b", "/">> \o name

\* the canonical URL of a build: the base URL of its job followed by /n/
CanonicalUrl(name, n) == BaseUrl(name) \o <<"/">> \o NumChars(n) \o <<"/">>

\* the URLs handed to the normalisation: the job's base URL with and without
\* its trailing slash, and the build's URL in its canonical form
UrlArgs ==
  {[kind |-> "url", url |-> u, name |-> t[1], n |-> t[2]] :
     <<t, u>> \in {x \in (UrlJobs \X UrlBuilds) \X
                          UNION {{BaseUrl(j), BaseUrl(j) \o <<"/">>} \cup
                                 {CanonicalUrl(j, b) : b \in UrlBuilds} : j \in UrlJobs} :
                    \/ x[2] \in {BaseUrl(x[1][1]), BaseUrl(x[1][1]) \o <<"/">>}
                    \/ x[2] = CanonicalUrl(x[1][1], x[1][2])}}

\* the functions are applied to every argument, once each
\* the rows a table of runs is made of: finished and running runs inside the
\* window, one that ended before it, one whose status is none of the three
MetricsRows ==
  {[status |-> "success", started_at |-> SomeTime(WindowFrom, FALSE),
    finished_at |-> SomeTime(WindowFrom + 1, FALSE)],
   [status |-> "failure", started_at |-> SomeTime(WindowFrom, FALSE),
    finished_at |-> SomeTime(WindowFrom + 1, FALSE)],
   [status |-> "running", started_at |-> SomeTime(WindowFrom, FALSE),
    finished_at |-> NoTime],
   [status |-> "queued", started_at |-> NoTime, finished_at |-> NoTime],
   [status |-> "success", started_at |-> SomeTime(0, FALSE),
    finished_at |-> SomeTime(1, FALSE)]}

MetricsArgs ==
  {[kind |-> "metrics", rows |-> rows, time_from |-> tf, time_to |-> tt] :
     rows \in UNION {[1..n -> MetricsRows] : n \in 0..MaxRuns},
     tf \in {NoTime, SomeTime(WindowFrom, FALSE)},
     tt \in {NoTime, SomeTime(WindowFrom, FALSE)}}

InitQ == InitRuns /\ fn = "-" /\ res = "-" /\ arg \in MetricsArgs

CallGetMetrics ==
  /\ fn = "-" /\ arg.kind = "metrics"
  /\ fn' = "get_metrics"
  /\ res' = get_metrics(arg.rows, arg.time_from, arg.time_to)
  /\ UNCHANGED <<arg, runs>>

NextQ == CallGetMetrics

SpecQ == InitQ /\ [][NextQ]_vars

\* the timestamps of a push-webhook payload: T and T + 125 s
PayloadInstants == {SomeTime(t, a) : t \in {SubmitT, SubmitT + 125}, a \in BOOLEAN}
PayloadTimes == {NoTime} \cup PayloadInstants
DurationArgs ==
  {[kind |-> "times", started_at |-> s, finished_at |-> f] :
     s \in PayloadTimes, f \in PayloadTimes}

\* the causes Jenkins reports: an entry that is no dict, and dicts with or
\* without userId, userName and shortDescription
CauseValues ==
  {[kind |-> "text", userId |-> << >>, userName |-> << >>, desc |-> << >>]}
  \cup [kind : {"dict"}, userId : {<< >>, <<"alice">>}, userName : {<< >>, <<"bob">>},
        desc : {<< >>, <<StartedBy, Blank, "admin">>, <<StartedBy, Blank>>,
                <<"Started by timer">>}]

\* the actions Jenkins reports
ActionValues ==
  {[kind |-> "text", userId |-> << >>, userName |-> << >>, hasCauses |-> FALSE,
    causes |-> << >>]}
  \cup {[kind |-> "dict", userId |-> i, userName |-> n, hasCauses |-> FALSE,
          causes |-> << >>] : i \in {<< >>, <<"carol">>}, n \in {<< >>, <<"dave">>}}
  \cup {[kind |-> "dict", userId |-> << >>, userName |-> << >>, hasCauses |-> TRUE,
          causes |-> <<c>>] :
          c \in {x \in CauseValues : x.desc \in {<< >>, <<StartedBy, Blank>>}}}

\* a sequence of at most n elements of S
SeqUpTo(S, n) == UNION {[1..k -> S] : k \in 0..n}

BuildArgs ==
  {[kind |-> "build", build |-> [causes |-> cs, actions |-> as]] :
     cs \in SeqUpTo(CauseValues, MaxCauses), as \in SeqUpTo(ActionValues, 1)}

InitU == InitRuns /\ fn = "-" /\ res = "-" /\ arg \in BuildArgs

CallGetBuildUser ==
  /\ fn = "-" /\ arg.kind = "build"
  /\ fn' = "_get_build_user"
  /\ res' = get_build_user(arg.build)
  /\ UNCHANGED <<arg, runs>>

NextU == CallGetBuildUser

SpecU == InitU /\ [][NextU]_vars

\* the values a payload holds under 'build': a text, or a dict whose full_url
\* is absent, a URL with or without '/job/', or a value that is no str
BuildValues ==
  {[kind |-> "text", number |-> 0, full_url |-> [kind |-> "absent", u |-> << >>]]}
  \cup {[kind |-> "dict", number |-> n, full_url |-> f] :
          n \in 0..1,
          f \in {[kind |-> "absent", u |-> << >>], [kind |-> "other", u |-> << >>],
                 [kind |-> "str", u |-> <<"view", "all">>]}
                \cup {[kind |-> "str", u |-> JenkinsBuildUrl(j, 1)] : j \in {"Foo", "Bar"}}}

\* the parsed bodies handed to extract_build_info
PayloadArgs ==
  {[kind |-> "payload", payload |-> [kind |-> k, keys |-> ks, name |-> n, build |-> b]] :
     k \in {"dict", "list", "int"}, ks \in SUBSET {"build", "name"},
     n \in JobNames, b \in BuildValues}

InitP ==
  /\ InitRuns /\ fn = "-" /\ res = "-"
  /\ arg \in StatusArgs \cup ResultArgs \cup UrlArgs \cup DurationArgs \cup PayloadArgs

CallNormalizeStatus ==
  /\ fn = "-" /\ arg.kind = "status"
  /\ fn' = "normalize_status"
  /\ res' = normalize_status(arg.raw)
  /\ UNCHANGED <<arg, runs>>

CallParseBuildStatus ==
  /\ fn = "-" /\ arg.kind = "result"
  /\ fn' = "parse_build_status"
  /\ res' = parse_build_status(arg.raw)
  /\ UNCHANGED <<arg, runs>>

\* the URL sync_jenkins_jobs stores
CallPollUrl ==
  /\ fn = "-" /\ arg.kind = "url"
  /\ fn' = "poll_url"
  /\ res' = PollUrlChars(arg.url, arg.name, arg.n)
  /\ UNCHANGED <<arg, runs>>

\* the URL sync_build_to_pipeline_runs stores
CallHookUrl ==
  /\ fn = "-" /\ arg.kind = "url"
  /\ fn' = "hook_url"
  /\ res' = HookUrlChars(arg.url, arg.n)
  /\ UNCHANGED <<arg, runs>>

\* the duration_seconds github_webhook and jenkins_webhook store
CallComputeDuration ==
  /\ fn = "-" /\ arg.kind = "times"
  /\ fn' = "compute_duration_seconds"
  /\ res' = compute_duration_seconds(arg.started_at, arg.finished_at)
  /\ UNCHANGED <<arg, runs>>

CallExtractBuildInfo ==
  /\ fn = "-" /\ arg.kind = "payload"
  /\ fn' = "extract_build_info"
  /\ res' = extract_build_info(arg.payload)
  /\ UNCHANGED <<arg, runs>>

NextP ==
  \/ CallNormalizeStatus \/ CallParseBuildStatus \/ CallPollUrl \/ CallHookUrl
  \/ CallComputeDuration \/ CallExtractBuildInfo

SpecP == InitP /\ [][NextP]_vars


\* ---- interleaved reconciles -----------------------------------------------
\* Requests and the scheduled job run on separate threads, each with a
\* session of its own (database.get_db / SessionLocal).  A session reads
\* committed rows, keeps its inserts and attribute changes to itself until it
\* commits (autoflush is off), and a commit writes the changed columns of the
\* rows it loaded, inserts its new rows and expires what it had loaded.

\* the build all threads observe
TheJob == "Foo"
TheBuild == 1

\* the clock and the history of the last operation, which interleaved steps
\* leave alone
hist == <<tick, opk, tgt, tnew, tobs, tatt, tevs, call, cyc, sse, misfires>>

\* the committed rows as a query of any session sees them
Committed == [db |-> store]

\* the object a session holds for row id: the identity map's, else loaded now
Load(L, id) ==
  IF id \in DOMAIN L.objs THEN L.objs[id] ELSE [view |-> store[id], dirty |-> {}]

\* obj.col = v: a column is written at the flush only when its value changed
SetAttr(o, col, v) ==
  IF o.view[col] = v THEN o
  ELSE [view |-> [o.view EXCEPT ![col] = v], dirty |-> o.dirty \cup {col}]

\* the UPDATE a flush issues for one loaded row
Flushed(r, o) ==
  [r EXCEPT !.status = IF "status" \in o.dirty THEN o.view.status ELSE @,
            !.started_at = IF "started_at" \in o.dirty THEN o.view.started_at ELSE @,
            !.url = IF "url" \in o.dirty THEN o.view.url ELSE @,
            !.notified = IF "notified" \in o.dirty THEN o.view.notified ELSE @]

\* Session.commit of thread p's session L: the store afterwards
CommitStore(L) ==
  LET merged == [i \in DOMAIN store |->
                   IF i \in DOMAIN L.objs THEN Flushed(store[i], L.objs[i]) ELSE store[i]]
  IN IF L.new # <<>> THEN merged @@ (nextId :> L.new[1]) ELSE merged

\* Session.commit: shared state after the commit; sent is the id an alert was
\* just delivered for (0: none)
CommitAs(L, sent) ==
  LET after == CommitStore(L)
  IN /\ store' = after
     /\ nextId' = IF L.new # <<>> THEN nextId + 1 ELSE nextId
     /\ epi' = [i \in Ids |->
                  IF i = sent THEN Cap(epi[i] + 1)
                  ELSE IF i \in DOMAIN after /\ after[i].status # "failure" THEN 0
                  ELSE epi[i]]
     /\ ever' = [i \in Ids |-> ever[i] \/ i = sent]

\* the session after a commit: nothing pending, everything expired
Expired(L) == [L EXCEPT !.new = <<>>, !.objs = <<>>]

\* rows that threads have added and not yet inserted
PendingInserts == Cardinality({q \in Procs : proc[q].new # <<>>})

\* the positions inside a run of the scheduled job
PollPcs == {"p_alert", "p_latest", "p_commit", "p_sweepq", "p_sweep"}

\* sync_jenkins_jobs up to the notifier call or the end of the build loop:
\* the lookup of the build and the update or the session.add.  The scheduler
\* starts a run of auto_sync_jenkins only when the previous run has ended.
PollFind(p) ==
  /\ proc[p].pc = "idle"
  /\ UNCHANGED hist
  /\ \A q \in Procs \ {p} : proc[q].pc \notin PollPcs
  /\ \E result \in BuildResults, c \in JobColors :
       LET existing == FindRun(Committed, TheJob, TheBuild)
           build_status == ParseBuildStatus(result)
           started_at == ConvertTimestamp(Now)
           u == JenkinsBuildUrl(TheJob, TheBuild)
           L == [Idle EXCEPT !.st = build_status, !.color = c, !.ex = existing]
       IN IF existing # 0
          THEN LET o == SetAttr(SetAttr(SetAttr(Load(L, existing),
                          "status", build_status),
                          "started_at", started_at),
                          "url", PollUrl(u, TheJob, TheBuild))
               IN proc' = [proc EXCEPT ![p] =
                             [L EXCEPT !.objs = (existing :> o), !.pc = "p_latest"]]
          ELSE /\ nextId + PendingInserts <= MaxId
               /\ proc' = [proc EXCEPT ![p] =
                    [L EXCEPT !.new = <<NewRun("jenkins", TheJob, TheBuild, build_status,
                                               started_at, PollUrl(u, TheJob, TheBuild))>>,
                              !.pc = IF build_status = "failure"
                                     THEN "p_alert" ELSE "p_latest"]]
  /\ UNCHANGED <<store, nextId, epi, ever>>

\* send_failure_alert(new_run, db) in the insert branch of sync_jenkins_jobs
PollAlert(p) ==
  /\ proc[p].pc = "p_alert"
  /\ UNCHANGED hist
  /\ \/ /\ proc' = [proc EXCEPT ![p].pc = "p_latest"]
        /\ UNCHANGED <<store, nextId, epi, ever>>
     \/ LET L == [proc[p] EXCEPT !.new[1].notified = TRUE]
        IN /\ CommitAs(L, nextId)
           /\ proc' = [proc EXCEPT ![p] = [Expired(L) EXCEPT !.pc = "p_latest"]]

\* "Also sync the latest job info" of sync_jenkins_jobs
PollLatest(p) ==
  /\ proc[p].pc = "p_latest"
  /\ UNCHANGED hist
  /\ LET L == proc[p]
         latest_job == LatestJob(Committed, TheJob)
     IN IF latest_job = 0
        THEN proc' = [proc EXCEPT ![p].pc = "p_commit"]
        ELSE LET o == SetAttr(SetAttr(Load(L, latest_job),
                        "status", ParseJobStatus(L.color)),
                        "url", JobUrl(TheJob))
             IN proc' = [proc EXCEPT ![p] =
                           [L EXCEPT !.objs = (latest_job :> o) @@ @, !.pc = "p_commit"]]
  /\ UNCHANGED <<store, nextId, epi, ever>>

\* db.commit() at the end of sync_jenkins_jobs
PollCommit(p) ==
  /\ proc[p].pc = "p_commit"
  /\ UNCHANGED hist
  /\ CommitAs(proc[p], 0)
  /\ proc' = [proc EXCEPT ![p] = [Expired(proc[p]) EXCEPT !.pc = "p_sweepq"]]

\* auto_sync_jenkins: the recent_failures query
SweepQuery(p) ==
  /\ proc[p].pc = "p_sweepq"
  /\ UNCHANGED hist
  /\ LET todo == RecentFailures(Committed)
     IN proc' = [proc EXCEPT ![p] =
                   IF todo = {} THEN Idle
                   ELSE [proc[p] EXCEPT !.todo = todo,
                                        !.objs = [i \in todo |-> Load(proc[p], i)],
                                        !.pc = "p_sweep"]]
  /\ UNCHANGED <<store, nextId, epi, ever>>

\* auto_sync_jenkins: send_failure_alert(failure, db) for the next row of the
\* query's answer
SweepAlert(p) ==
  /\ proc[p].pc = "p_sweep"
  /\ UNCHANGED hist
  /\ LET i == CHOOSE x \in proc[p].todo : \A y \in proc[p].todo : x <= y
         rest == proc[p].todo \ {i}
         after(L) == IF rest = {} THEN Idle
                     ELSE [L EXCEPT !.todo = rest, !.pc = "p_sweep"]
     IN \/ /\ proc' = [proc EXCEPT ![p] = after(proc[p])]
           /\ UNCHANGED <<store, nextId, epi, ever>>
        \/ LET L == [proc[p] EXCEPT !.objs =
                       (i :> SetAttr(Load(proc[p], i), "notified", TRUE)) @@ @]
           IN /\ CommitAs(L, i)
              /\ proc' = [proc EXCEPT ![p] = after(Expired(L))]

\* the positions inside the /webhooks/jenkins handler
HookPcs == {"h_alert", "h_commit", "h_check", "h_alert2"}

\* sync_build_to_pipeline_runs up to the notifier call or the commit: the
\* lookup of the build and the update or the session.add.  The handler is a
\* coroutine that never yields after reading its payload, so the event loop
\* runs one such handler at a time; the scheduled job and the sync endpoints
\* run on worker threads beside it.
HookFind(p) ==
  /\ proc[p].pc = "idle"
  /\ UNCHANGED hist
  /\ \A q \in Procs \ {p} : proc[q].pc \notin HookPcs
  /\ \E result \in BuildResults :
       LET existing_run == FindRun(Committed, TheJob, TheBuild)
           build_status == ParseBuildStatus(result)
           started_at == ConvertTimestamp(Now)
           u == JenkinsBuildUrl(TheJob, TheBuild)
           L == [Idle EXCEPT !.st = build_status, !.ex = existing_run]
       IN IF existing_run # 0
          THEN LET o == SetAttr(SetAttr(SetAttr(Load(L, existing_run),
                          "status", build_status),
                          "started_at", started_at),
                          "url", HookUrl(u, TheBuild))
               IN proc' = [proc EXCEPT ![p] =
                             [L EXCEPT !.objs = (existing_run :> o), !.pc = "h_commit"]]
          ELSE /\ nextId + PendingInserts <= MaxId
               /\ proc' = [proc EXCEPT ![p] =
                    [L EXCEPT !.new = <<NewRun("jenkins", TheJob, TheBuild, build_status,
                                               started_at, HookUrl(u, TheBuild))>>,
                              !.pc = IF build_status = "failure"
                                     THEN "h_alert" ELSE "h_commit"]]
  /\ UNCHANGED <<store, nextId, epi, ever>>

\* send_failure_alert(new_run, db) in the insert branch of
\* sync_build_to_pipeline_runs
HookAlert(p) ==
  /\ proc[p].pc = "h_alert"
  /\ UNCHANGED hist
  /\ \/ /\ proc' = [proc EXCEPT ![p].pc = "h_commit"]
        /\ UNCHANGED <<store, nextId, epi, ever>>
     \/ LET L == [proc[p] EXCEPT !.new[1].notified = TRUE]
        IN /\ CommitAs(L, nextId)
           /\ proc' = [proc EXCEPT ![p] =
                         [Expired(L) EXCEPT !.ret = nextId, !.pc = "h_commit"]]

\* db.commit() and the return of sync_build_to_pipeline_runs: None after the
\* update branch, the new record after the insert branch
HookCommit(p) ==
  /\ proc[p].pc = "h_commit"
  /\ UNCHANGED hist
  /\ CommitAs(proc[p], 0)
  /\ proc' = [proc EXCEPT ![p] =
                IF proc[p].ex # 0 THEN Idle
                ELSE [Expired(proc[p]) EXCEPT
                        !.ret = IF proc[p].new # <<>> THEN nextId ELSE @,
                        !.pc = "h_check"]]

\* jenkins_webhook: "if run_record and run_record.status == 'failure' and not
\* run_record.notified", read from the row as committed
HookCheck(p) ==
  /\ proc[p].pc = "h_check"
  /\ UNCHANGED hist
  /\ LET o == Load(proc[p], proc[p].ret)
     IN proc' = [proc EXCEPT ![p] =
                   IF o.view.status = "failure" /\ ~o.view.notified
                   THEN [@ EXCEPT !.objs = (proc[p].ret :> o), !.pc = "h_alert2"]
                   ELSE Idle]
  /\ UNCHANGED <<store, nextId, epi, ever>>

\* jenkins_webhook: send_failure_alert(run_record, db)
HookAlertAgain(p) ==
  /\ proc[p].pc = "h_alert2"
  /\ UNCHANGED hist
  /\ \/ /\ proc' = [proc EXCEPT ![p] = Idle]
        /\ UNCHANGED <<store, nextId, epi, ever>>
     \/ LET i == proc[p].ret
            L == [proc[p] EXCEPT !.objs =
                    (i :> SetAttr(Load(proc[p], i), "notified", TRUE)) @@ @]
        IN /\ CommitAs(L, i)
           /\ proc' = [proc EXCEPT ![p] = Idle]

NextC ==
  \E p \in Procs :
    \/ PollFind(p) \/ PollAlert(p) \/ PollLatest(p) \/ PollCommit(p)
    \/ SweepQuery(p) \/ SweepAlert(p)
    \/ HookFind(p) \/ HookAlert(p) \/ HookCommit(p)
    \/ HookCheck(p) \/ HookAlertAgain(p)

\* runs of the scheduled job and /webhooks/jenkins requests for one build,
\* their steps interleaved
SpecConc == Init /\ [][NextC]_vars

\* ---- the scheduled job, cycle after cycle ------------------------------------

\* the Jenkins records that are failing and wait for their alert
Waiting ==
  {i \in DOMAIN store : /\ store[i].provider = "jenkins"
                        /\ store[i].status = "failure"
                        /\ ~store[i].notified}

\* a cycle in which send_failure_alert is called for a waiting record and
\* its post to Slack succeeds
CycleDelivers ==
  /\ AutoSync(FALSE)
  /\ \E i \in Waiting : store'[i].notified

NextR == AutoSync(FALSE) \/ Tick

\* the interval trigger starts cycle after cycle, and a post that is
\* attempted again and again succeeds in the end
SpecR ==
  Init /\ [][NextR]_vars /\ WF_vars(AutoSync(FALSE)) /\ SF_vars(CycleDelivers)

\* ---- the notifier and the commits of a poll sync, statement by statement ----

\* send_failure_alert(new_run, db): urllib.request.urlopen(req, timeout=5)
\* raises, or the message is delivered; the row is still pending in the
\* session and will take the id nextId
DeliverPost(p) ==
  /\ proc[p].pc = "p_alert"
  /\ UNCHANGED hist
  /\ \/ /\ proc' = [proc EXCEPT ![p].pc = "p_latest"]
        /\ UNCHANGED <<store, nextId, epi, ever>>
     \/ /\ proc' = [proc EXCEPT ![p].pc = "d_mark"]
        /\ epi' = [epi EXCEPT ![nextId] = Cap(@ + 1)]
        /\ ever' = [ever EXCEPT ![nextId] = TRUE]
        /\ UNCHANGED <<store, nextId>>

\* send_failure_alert: run.notified = True; db_session.commit().  When the
\* commit raises, the except of send_failure_alert catches it and the
\* session has lost the pending row: the sync goes on without it, or its
\* next statement raises and the request ends.
DeliverCommit(p) ==
  /\ proc[p].pc = "d_mark"
  /\ UNCHANGED hist
  /\ LET L == [proc[p] EXCEPT !.new[1].notified = TRUE]
     IN \/ /\ CommitAs(L, 0)
           /\ proc' = [proc EXCEPT ![p] = [Expired(L) EXCEPT !.pc = "p_latest"]]
        \/ /\ UNCHANGED <<store, nextId, epi, ever>>
           /\ \/ proc' = [proc EXCEPT ![p] = [Expired(L) EXCEPT !.pc = "p_latest"]]
              \/ proc' = [proc EXCEPT ![p] = Idle]

\* db.commit() at the end of sync_jenkins_jobs, which may raise; the request
\* ends either way
FinalCommit(p) ==
  /\ proc[p].pc = "p_commit"
  /\ UNCHANGED hist
  /\ proc' = [proc EXCEPT ![p] = Idle]
  /\ \/ CommitAs(proc[p], 0)
     \/ UNCHANGED <<store, nextId, epi, ever>>

NextD ==
  \E p \in Procs :
    \/ PollFind(p) \/ DeliverPost(p) \/ DeliverCommit(p) \/ PollLatest(p)
    \/ FinalCommit(p)

\* poll syncs of one build, one at a time, with a notifier whose post and
\* whose commit are separate steps and a store that may refuse a commit
SpecD == Init /\ [][NextD]_vars

\* ---- properties -------------------------------------------------------------

\* the operations that reconcile an observed Jenkins build
Reconciles == {"sync", "auto_sync", "webhook"}

\* the rows that carry the Jenkins build key of row i
SameKey(i) ==
  {j \in DOMAIN store : /\ store[j].provider = "jenkins"
                        /\ store[j].pipeline_name = store[i].pipeline_name
                        /\ store[j].build_number = store[i].build_number}

\* C1: over non-overlapping poll syncs and native webhook reconciles, the
\* store holds at most one record per (jenkins, pipeline_name, build_number):
\* a second observation of a key updates the record of the first.
C1_OneRecordPerKey ==
  \A i \in DOMAIN store : store[i].provider = "jenkins" => SameKey(i) = {i}

\* C1 witness: the last reconcile observed a build that already had a record,
\* and the store still holds that one record for the key.
C1_SecondObservationUpdated ==
  /\ opk \in Reconciles
  /\ tgt \in DOMAIN store
  /\ ~tnew
  /\ SameKey(tgt) = {tgt}

\* C2: a sync or webhook reconcile that observes failure for an existing
\* record whose status was not failure and whose notified was false makes
\* exactly one call of send_failure_alert for that record.
C2_TransitionIntoFailureAlertsOnce ==
  [][(/\ opk' \in {"sync", "webhook"}
      /\ tick' = tick
      /\ tobs' = "failure"
      /\ tgt' \in DOMAIN store
      /\ store[tgt'].status # "failure"
      /\ ~store[tgt'].notified) => tatt' = 1]_vars

\* C2 case: a sync or webhook reconcile has just observed failure for a
\* record that existed before it.
C2_ExistingObservedFailing ==
  /\ opk \in {"sync", "webhook"}
  /\ tgt \in DOMAIN store
  /\ ~tnew
  /\ tobs = "failure"

\* C3: handling a failure observation for a key without a record (the
\* /webhooks/jenkins handler, or a poll cycle with its sweep) makes exactly one
\* call of send_failure_alert for the new record.
C3_NewFailureAlertsOnce ==
  (/\ opk \in {"webhook", "auto_sync"}
   /\ tgt # 0
   /\ tnew
   /\ tobs = "failure") => tatt = 1

\* C3 case: the handler or a poll cycle has just created a record for a
\* build observed as failure.
C3_NewFailureHandled ==
  /\ opk \in {"webhook", "auto_sync"}
  /\ tgt \in DOMAIN store
  /\ tnew
  /\ tobs = "failure"

\* C4: two consecutive reconciles that observe the same build as failure,
\* its status staying failure in between, make at most one call of
\* send_failure_alert for it in total.
C4_RepeatedFailureAlertsAtMostOnce ==
  [][(/\ tick' = tick
      /\ opk \in Reconciles
      /\ opk' \in Reconciles
      /\ tgt \in DOMAIN store
      /\ tgt' = tgt
      /\ tobs = "failure"
      /\ tobs' = "failure"
      /\ store[tgt].status = "failure") => tatt + tatt' <= 1]_vars

\* C4 case: a reconcile has observed failure for a record that existed
\* before it and whose status is failure.
C4_FailingObservedAgain ==
  /\ opk \in Reconciles
  /\ tgt \in DOMAIN store
  /\ ~tnew
  /\ tobs = "failure"
  /\ store[tgt].status = "failure"

\* C11: when every delivery attempted for the reconciled record in a
\* reconcile fails, the reconcile still completes with the record committed
\* under the observed key, its status written (the observed one, or the job
\* status the same pass wrote), and notified false.
C11_FailedDeliveryKeepsMerge ==
  (/\ opk \in Reconciles
   /\ tgt # 0
   /\ tatt >= 1
   /\ ~ever[tgt])
  => /\ tgt \in DOMAIN store
     /\ store[tgt].provider = "jenkins"
     /\ store[tgt].build_number \in BuildNums
     /\ store[tgt].status \in {tobs} \cup {ParseJobStatus(c) : c \in JobColors}
     /\ (opk = "webhook" => store[tgt].status = tobs)
     /\ ~store[tgt].notified

\* C11 case: a reconcile has called the notifier for its record and no
\* delivery for that record has ever succeeded.
C11_DeliveryFailed ==
  /\ opk \in Reconciles
  /\ tgt \in DOMAIN store
  /\ tatt >= 1
  /\ ~ever[tgt]

\* C12: in every state of the store, under poll syncs, both Jenkins webhook
\* endpoints, update-build-numbers, force-update and delete, no two records
\* share (provider, pipeline_name, build_number) with a build number.
C12_KeyUniqueInStore ==
  \A i, j \in DOMAIN store :
    (/\ store[i].build_number # 0
     /\ store[i].provider = store[j].provider
     /\ store[i].pipeline_name = store[j].pipeline_name
     /\ store[i].build_number = store[j].build_number) => i = j

\* C12 case: update-build-numbers has given a build number to a record that
\* POST /jenkins stored without one.
C12_NumberTakenFromUrl ==
  \E i \in DOMAIN store :
    /\ store[i].provider = "jenkins"
    /\ store[i].url = JenkinsBuildUrl(store[i].pipeline_name, 1)
    /\ store[i].build_number = 1

\* the rows of store st that carry the Jenkins build key (name, bn)
RowsOfKey(st, name, bn) ==
  {j \in DOMAIN st : /\ st[j].provider = "jenkins"
                     /\ st[j].pipeline_name = name
                     /\ st[j].build_number = bn}

\* C13: a reconcile of an observation whose (provider, pipeline_name,
\* build_number) has no record creates exactly one record for that key, and
\* the record is created with notified = false: the flag is set afterwards
\* only by a delivery that succeeded.
C13_UnseenKeyCreatesOneRecord ==
  [][(/\ tick' = tick /\ opk' \in Reconciles /\ tgt' # 0 /\ tnew')
     => /\ tgt' \notin DOMAIN store
        /\ tgt' \in DOMAIN store'
        /\ RowsOfKey(store, store'[tgt'].pipeline_name,
                     store'[tgt'].build_number) = {}
        /\ RowsOfKey(store', store'[tgt'].pipeline_name,
                     store'[tgt'].build_number) = {tgt'}
        /\ (store'[tgt'].notified => ever'[tgt'])]_vars

\* C13 case: the last reconcile created the record of an unseen key,
\* observed as failed, and no delivery succeeded: the record is unnotified.
C13_CreatedUnnotified ==
  /\ opk \in Reconciles /\ tnew /\ tgt \in DOMAIN store
  /\ tobs = "failure" /\ ~store[tgt].notified
  /\ SameKey(tgt) = {tgt}

\* C14: every successful reconcile, insert or update, through the Jenkins
\* webhook or through a poll or manual sync, puts exactly one event carrying
\* the record's id and status on the event queue.
C14_ReconcileEmitsOneEvent ==
  (opk \in Reconciles /\ tgt \in DOMAIN store)
  => tevs = <<[id |-> tgt, status |-> store[tgt].status]>>

\* C14 case: a webhook reconcile created a record and put its event on the
\* queue.
C14_WebhookInsertEmitted ==
  /\ opk = "webhook" /\ tnew /\ tgt \in DOMAIN store
  /\ tevs = <<[id |-> tgt, status |-> store[tgt].status]>>

\* C15: after a reconcile of an existing record has completed, the whole
\* sync_jenkins_jobs pass included, the record's stored status is the
\* normalized status of that build observation: nothing else in the pass
\* changes the status of a run record.
C15_LastObservationWins ==
  (opk \in Reconciles /\ tgt \in DOMAIN store /\ ~tnew)
  => store[tgt].status = tobs

\* C15 case: a poll sync has updated an existing record and the pass has
\* left the observed status in it.
C15_ExistingUpdatedByPoll ==
  /\ opk \in {"sync", "auto_sync"} /\ tgt \in DOMAIN store /\ ~tnew
  /\ tobs = "failure" /\ store[tgt].status = tobs

\* C16: a reconcile of an existing record by an observation that lacks
\* started_at (or duration, url, branch, actor) leaves the stored non-null
\* value of the field unchanged, in the poll path and in the webhook path: a
\* known start time never regresses to null.
C16_KnownStartTimeKept ==
  [][(/\ tick' = tick /\ opk' \in Reconciles
      /\ tgt' \in DOMAIN store /\ store[tgt'].started_at # 0)
     => store'[tgt'].started_at = store[tgt'].started_at]_vars

\* C16 case: a record with a known start time has been reconciled again and
\* has kept it.
C16_ReconciledWithStartTime ==
  /\ opk \in Reconciles /\ tgt \in DOMAIN store /\ ~tnew
  /\ store[tgt].started_at # 0

\* what C17 says normalize_status returns for an argument spelled from word
ClaimedStatus(a) ==
  IF a.raw.none \/ a.raw.s = << >> THEN "running"
  ELSE CASE a.word \in {"success", "succeeded", "passed", "pass", "ok", "green"}
              -> "success"
         [] a.word \in {"failure", "failed", "error", "errored", "red", "cancelled",
                        "canceled"} -> "failure"
         [] a.word \in {"running", "in_progress", "queued", "pending"} -> "running"
         [] OTHER -> a.word

\* C17: normalize_status is total and, case-insensitively and after trimming
\* whitespace, returns success, failure or running for their synonyms,
\* running for null or empty input, and the lowercased, trimmed input for
\* every other non-empty string.
C17_NormalizeStatusAsSpecified ==
  fn = "normalize_status" => res = ClaimedStatus(arg)

\* C17 case: a synonym of failure, in capitals and padded, came back as
\* failure.
C17_PaddedSynonymNormalized ==
  /\ fn = "normalize_status" /\ arg.word = "cancelled"
  /\ arg.raw.s = <<" ", "\t", "C", "A", "N", "C", "E", "L", "L", "E", "D", "\n">>
  /\ res = "failure"

\* C18: _parse_build_status, the normalization applied to polled and
\* webhook-reported builds, maps an absent or empty build result to running.
C18_NoResultMeansRunning ==
  (fn = "parse_build_status" /\ (arg.raw.none \/ arg.raw.s = << >>))
  => res = "running"

\* C18 case: a reported result, in capitals as Jenkins sends it, was parsed.
C18_ReportedResultParsed ==
  /\ fn = "parse_build_status"
  /\ arg.raw.s = <<"F", "A", "I", "L", "U", "R", "E">>
  /\ res = "failure"

\* C19: for a build with base job URL B and number n the stored URL is B
\* without its trailing slash followed by /n/, and normalising a URL that
\* already ends in /n/ returns it unchanged, in sync_jenkins_jobs and in
\* sync_build_to_pipeline_runs.
C19_UrlNormalizedOnce ==
  fn \in {"poll_url", "hook_url"} => res = CanonicalUrl(arg.name, arg.n)

\* C19 case: the base URL of a job, with its trailing slash, was completed
\* to the canonical URL of the build.
C19_BaseUrlCompleted ==
  /\ fn \in {"poll_url", "hook_url"}
  /\ arg.url = BaseUrl(arg.name) \o <<"/">>
  /\ arg.n = 6
  /\ res = CanonicalUrl(arg.name, 6)

\* the build number C20 gives an entry of job name: its native number, else
\* the number its URL ends in, else none (0)
ClaimedNumber(name, b) ==
  IF b.number # 0 THEN b.number
  ELSE IF \E n \in BuildNums : b.url = JenkinsBuildUrl(name, n)
       THEN CHOOSE n \in BuildNums : b.url = JenkinsBuildUrl(name, n)
       ELSE 0

\* a batch with the claimed number written into every entry and the entries
\* without one left out
Resolved(name, batch) ==
  SelectSeq([k \in 1..Len(batch) |->
               [batch[k] EXCEPT !.number = ClaimedNumber(name, batch[k])]],
            LAMBDA b : b.number # 0)

\* C20: in a poll sync a build without a native number takes the number its
\* URL ends in; a build with neither is skipped without creating or
\* modifying a record and the rest of the batch is still processed: the
\* sync leaves what a sync of the resolved batch leaves.
C20_UnnumberedBuildsResolvedOrSkipped ==
  [][(opk' = "batch" /\ arg'.kind = "batch")
     => <<store', nextId', epi', ever'>> \in
          {<<W.db, W.nextId, W.epi, W.ever>> :
             W \in SyncJenkinsBatch(Session, arg'.name, arg'.color,
                                    Resolved(arg'.name, arg'.builds))}]_vars

\* C20 case: a batch led by an entry with neither number nor numeric URL,
\* followed by an entry numbered by its URL alone, left exactly the record of
\* build 2.
C20_SkippedThenNumberedByUrl ==
  /\ opk = "batch" /\ arg.kind = "batch" /\ Len(arg.builds) = 2
  /\ arg.builds[1].number = 0 /\ arg.builds[1].url = JobUrl(arg.name)
  /\ arg.builds[2].number = 0 /\ arg.builds[2].url = JenkinsBuildUrl(arg.name, 2)
  /\ DOMAIN store = {1}
  /\ store[1].build_number = 2

\* C21: a POST to /webhooks/jenkins whose payload has an unrecognized shape
\* (no observation can be extracted from it) is answered with a client-error
\* (4xx) status, and no record is created or changed.
C21_MalformedPayloadIsClientError ==
  [][(/\ opk' = "rejected" /\ tick' = tick
      /\ arg'.payload.json /\ ExtractBuildInfo(arg'.payload) = "none")
     => (res' \in 400..499 /\ store' = store)]_vars

\* C21 case: a payload without a 'build' key was turned away while the store
\* held a record, and the store kept it.
C21_MalformedPayloadTurnedAway ==
  /\ opk = "rejected" /\ arg.payload.json /\ "build" \notin arg.payload.keys
  /\ store # << >>

\* C22: if fetching the builds of one job fails, sync_jenkins_jobs still
\* fetches and reconciles every other job of the cycle and commits their
\* records: every build listed for a job whose fetch succeeded has its record
\* in the store.
C22_OtherJobsStillSynced ==
  opk = "fetch_sync"
  => \A name \in DOMAIN arg.fetch :
       arg.fetch[name].kind = "ok"
       => \A b \in DOMAIN arg.fetch[name].builds :
            RowsOfKey(store, name, b) # {}

\* C22 case: the request for the first job's builds timed out, the second
\* job's build was listed, and its record is in the store.
C22_SecondJobSyncedAfterFailure ==
  /\ opk = "fetch_sync"
  /\ arg.fetch["Foo"].kind = "timeout"
  /\ arg.fetch["Bar"].kind = "ok"
  /\ DOMAIN arg.fetch["Bar"].builds = {1}
  /\ RowsOfKey(store, "Bar", 1) # {}

\* C23: an error raised while one build is reconciled in a poll sync is
\* contained to that build: the other builds are still reconciled and
\* committed in the same sync.
C23_ErrorContainedToBuild ==
  opk = "faulty_sync"
  => \A k \in 1..Len(arg.builds) :
       ~arg.builds[k].raises
       => RowsOfKey(store, arg.name, arg.builds[k].build.number) # {}

\* C23 case: the first build of a sync raised and the second did not.
C23_FirstBuildRaised ==
  /\ opk = "faulty_sync" /\ Len(arg.builds) = 2
  /\ arg.builds[1].raises /\ ~arg.builds[2].raises

C25_FailedSyncLeavesStoreUntouched ==
  [][(/\ opk' = "faulty_sync"
      /\ \E k \in 1..Len(arg'.builds) : arg'.builds[k].raises)
     => store' = store]_vars

\* C25 case: a sync reconciled a build, raised at the next one, and the
\* store is still empty.
C25_RaisedAndRolledBack ==
  /\ opk = "faulty_sync" /\ Len(arg.builds) = 2
  /\ ~arg.builds[1].raises /\ arg.builds[2].raises
  /\ store = << >>

\* C26: every accepted submission to POST /github inserts exactly one record
\* under an id no record had, whatever the store holds for that pipeline, and
\* leaves every record the store held as it was; so two submissions with the
\* same payload yield two records.
C26_PushAlwaysInserts ==
  [][(opk' = "push" /\ fn' = "github_webhook" /\ tick' = tick)
       => /\ res' \notin DOMAIN store
          /\ DOMAIN store' = DOMAIN store \cup {res'}
          /\ store'[res'].provider = "github"
          /\ store'[res'].pipeline_name = arg'.pipeline_name
          /\ \A i \in DOMAIN store : store'[i] = store[i]]_vars

\* C26 witness: the same payload was accepted twice and the store holds two
\* records of it
C26_SamePayloadTwice ==
  /\ opk = "push"
  /\ DOMAIN store = {1, 2}
  /\ store[1] = store[2]
  /\ store[1].provider = "github"
  /\ res = 2

\* C27 as stated: for a push-webhook submission with both timestamps that is
\* stored, duration_seconds is finished_at minus started_at in seconds and is
\* non-negative; when either timestamp is absent it is null.
C27_DurationNonNegativeDifference ==
  (fn = "compute_duration_seconds" /\ res.kind # "TypeError")
  => IF ~arg.started_at.none /\ ~arg.finished_at.none
     THEN /\ res.kind = "float"
          /\ res.v = arg.finished_at.secs - arg.started_at.secs
          /\ res.v >= 0
     ELSE res.kind = "None"

\* C27 amended: with both timestamps of the same kind duration_seconds is
\* finished_at minus started_at in seconds, negative exactly when finished_at
\* is the earlier of the two; with a naive and an aware timestamp the
\* subtraction raises and nothing is stored; when either is absent it is null.
C27_DurationIsSignedDifference ==
  fn = "compute_duration_seconds"
  => IF arg.started_at.none \/ arg.finished_at.none THEN res.kind = "None"
     ELSE IF arg.started_at.aware # arg.finished_at.aware THEN res.kind = "TypeError"
     ELSE /\ res.kind = "float"
          /\ res.v = arg.finished_at.secs - arg.started_at.secs
          /\ (res.v < 0 <=> arg.finished_at.secs < arg.started_at.secs)

\* C27 witness: started_at T and finished_at T + 125 s gave 125
C27_TwoMinutesFive ==
  /\ fn = "compute_duration_seconds"
  /\ arg.started_at = SomeTime(SubmitT, TRUE)
  /\ arg.finished_at = SomeTime(SubmitT + 125, TRUE)
  /\ res = PyFloat(125)

\* the instants a row carries
InstantsOf(r) ==
  {t.secs : t \in {x \in {r.started_at, r.finished_at} : ~x.none}}

\* the rows of a table that lie in the window: with time_from given, those
\* that started or finished at or after it; with time_to given, those that
\* started or finished at or before it
InWindow(a) ==
  {k \in 1..Len(a.rows) :
     /\ (a.time_from.none \/ \E t \in InstantsOf(a.rows[k]) : t >= a.time_from.secs)
     /\ (a.time_to.none \/ \E t \in InstantsOf(a.rows[k]) : t <= a.time_to.secs)}

SuccessesIn(a) == {k \in InWindow(a) : a.rows[k].status = "success"}

\* C28 as stated: get_metrics returns total_runs equal to the number of runs
\* in the selected window and success_rate equal to 100 x success_count /
\* total_runs, and success_rate 0 when the window holds no runs (success_rate
\* is held in hundredths).
C28_RateIsExactQuotient ==
  fn = "get_metrics"
  => /\ res.total_runs = Cardinality(InWindow(arg))
     /\ res.success_count = Cardinality(SuccessesIn(arg))
     /\ IF res.total_runs = 0 THEN res.success_rate = 0
        ELSE res.success_rate * res.total_runs = 10000 * res.success_count

\* C28 amended: total_runs is the number of runs in the selected window, and
\* success_rate is 100 x success_count / total_runs rounded to two decimals,
\* so within half a hundredth of the quotient; it is 0 when the window holds
\* no runs.
C28_RateIsRoundedQuotient ==
  fn = "get_metrics"
  => /\ res.total_runs = Cardinality(InWindow(arg))
     /\ res.success_count = Cardinality(SuccessesIn(arg))
     /\ IF res.total_runs = 0 THEN res.success_rate = 0
        ELSE LET d == res.success_rate * res.total_runs - 10000 * res.success_count
             IN 2 * d <= res.total_runs /\ 2 * (0 - d) <= res.total_runs

\* C28 witness: a window of 3 successes, 1 failure and 1 running run gave
\* total_runs 5 and success_rate 60
C28_ThreeOfFive ==
  /\ fn = "get_metrics"
  /\ ~arg.time_from.none
  /\ res.total_runs = 5
  /\ res.success_count = 3 /\ res.failure_count = 1 /\ res.running_count = 1
  /\ res.success_rate = 6000

\* client s has been sent event number n
Received(s, n) == \E k \in DOMAIN sse.got[s] : sse.got[s][k].n = n

\* C29: every event broadcast while several clients are connected to /stream
\* is delivered to each of those clients.
C29_FanOutToEverySubscriber ==
  \A n \in 1..MaxId : \A s \in Subs :
    (n \in DOMAIN sse.heard /\ Cardinality(sse.heard[n]) >= 2 /\ s \in sse.heard[n])
      ~> Received(s, n)

\* C29 case: an event put while both clients were connected has been taken off
\* the queue by one of them, and the queue is empty.
C29_TakenByOneSubscriber ==
  /\ sse.sent = 1 /\ sse.heard[1] = Subs
  /\ sse.queue = << >>
  /\ Received(1, 1) /\ ~Received(2, 1)

\* C30: over operations that run one at a time (poll sync, poll cycle with
\* its sweep, Jenkins webhook, force-update, push webhooks), every call of
\* send_failure_alert is made for a record whose notified flag is false while
\* failure is the status recorded for it.
C30_AlertOnlyForUnnotifiedFailure ==
  misfires = {}

\* C30 case: a record is failing and notified, so an alert was called and
\* delivered for it, and a record beside it is failing and not notified.
C30_NotifiedBesideUnnotified ==
  \E i, j \in DOMAIN store :
    /\ store[i].status = "failure" /\ store[i].notified /\ ever[i]
    /\ store[j].status = "failure" /\ ~store[j].notified

\* the URL of row r ends in /<build_number>/
UrlEndsInNumber(r) ==
  r.url # << >> /\ r.url[Len(r.url)] = NumStr(r.build_number)

\* C31: after a poll sync has completed, every Jenkins record that has a
\* build_number has a url that ends in /<build_number>/, the most recent run
\* of each job after the job-level re-synchronization included.
C31_UrlEndsInBuildNumber ==
  opk \in {"sync", "auto_sync"}
  => \A i \in DOMAIN store :
       (store[i].provider = "jenkins" /\ store[i].build_number # 0)
       => UrlEndsInNumber(store[i])

\* C31 case: a poll sync has reconciled a record that existed before it and
\* that is the most recent run of its job.
C31_LatestRunResynced ==
  /\ opk \in {"sync", "auto_sync"}
  /\ tgt \in DOMAIN store /\ ~tnew
  /\ store[tgt].build_number # 0
  /\ \A j \in DOMAIN store :
       store[j].pipeline_name = store[tgt].pipeline_name
       => store[j].started_at <= store[tgt].started_at

\* a payload that is a dict holding a dict under 'build' whose full_url, if
\* any, is a text
HasBuildDict(p) ==
  /\ p.kind = "dict" /\ "build" \in p.keys
  /\ p.build.kind = "dict" /\ p.build.full_url.kind # "other"

\* C32: extract_build_info accepts both envelope shapes: for the
\* build-wrapped shape the job name is derived from build.full_url, for the
\* name+build shape it is the payload's name field; any other payload yields
\* no observation, and no input makes it raise.
C32_BothShapesAccepted ==
  fn = "extract_build_info"
  => LET p == arg.payload
     IN /\ res.kind # "raise"
        /\ IF HasBuildDict(p) /\ "name" \in p.keys
           THEN res.kind = "info" /\ res.job_name = <<p.name>>
           ELSE IF HasBuildDict(p)
           THEN res.kind = "info" /\ res.job_name = JobNameOf(p.build.full_url)
           ELSE res.kind = "None"

\* C32 case: a payload of the name+build shape, its build without full_url,
\* was handed to extract_build_info.
C32_FlatShapeHandled ==
  /\ fn = "extract_build_info"
  /\ arg.payload.kind = "dict" /\ arg.payload.keys = {"build", "name"}
  /\ arg.payload.build.kind = "dict"
  /\ arg.payload.build.full_url.kind = "absent"
  /\ arg.payload.build.number = 1

\* the actor a cause names: its user-id, else its user-name, else the user
\* of a 'Started by user X' description; << >> when it names none
NamedBy(c) ==
  IF c.kind # "dict" THEN << >>
  ELSE IF c.userId # << >> THEN c.userId
  ELSE IF c.userName # << >> THEN c.userName
  ELSE IF Len(c.desc) >= 3 /\ c.desc[1] = StartedBy THEN <<c.desc[3]>>
  ELSE << >>

\* the actors the actions name, nested causes included
NamedInActions(b) ==
  UNION {{b.actions[k].userId, b.actions[k].userName}
           \cup {NamedBy(b.actions[k].causes[j]) : j \in DOMAIN b.actions[k].causes}
         : k \in DOMAIN b.actions} \ {<< >>}

C34_AlertOnlyAfterCommit ==
  \A i \in Ids : ever[i] => i \in DOMAIN store

\* C34 case: the alert of a build has been delivered twice, each time for a
\* record that was new, and the store holds no record of the build.
C34_AlertedAgainAsNew ==
  /\ store = << >>
  /\ epi[1] = 2
  /\ \A p \in Procs : proc[p].pc = "idle"

\* C35: a Jenkins record with status failure and notified = false gets its
\* alert delivered and notified set by the repeated cycles of
\* auto_sync_jenkins, provided the notifier succeeds in the end, however long
\* ago the build started and whether or not it has a start time (or the
\* record stops being a failure).
C35_WaitingFailureEventuallyAlerted ==
  \A i \in Ids :
    (i \in Waiting)
      ~> (i \in DOMAIN store /\ (store[i].notified \/ store[i].status # "failure"))

\* C35 case: a failing record without a start time waits for its alert, no
\* alert having ever been delivered for it.
C35_WaitingWithoutStartTime ==
  \E i \in Waiting : store[i].started_at = 0 /\ ~ever[i]

\* the numbers of the events a sequence of queued or yielded events holds
NumbersIn(q) == {q[k].n : k \in DOMAIN q}

\* a sequence of events in the order of their broadcast, none twice
InBroadcastOrder(q) == \A j, k \in DOMAIN q : j < k => q[j].n < q[k].n

\* C36: the event queue is FIFO and lossless: every event broadcast is either
\* still queued or has been yielded by exactly one generator, exactly once
\* (events broadcast while no consumer was connected included); each
\* generator yields in the order of broadcast, and nothing queued was
\* broadcast before something already yielded.
C36_QueueFifoAndLossless ==
  /\ NumbersIn(sse.queue) \cup UNION {NumbersIn(sse.got[s]) : s \in Subs} = 1..sse.sent
  /\ \A s, t \in Subs : s # t => NumbersIn(sse.got[s]) \cap NumbersIn(sse.got[t]) = {}
  /\ InBroadcastOrder(sse.queue)
  /\ \A s \in Subs : InBroadcastOrder(sse.got[s])
  /\ \A s \in Subs : \A m \in NumbersIn(sse.got[s]) : \A n \in NumbersIn(sse.queue) : m < n

\* C36 case: two events were broadcast while no consumer was connected, and
\* the consumer that connected next has been yielded both, in order.
C36_RetainedForNextConsumer ==
  /\ sse.sent = 2 /\ sse.heard = <<{}, {}>>
  /\ \E s \in Subs : Len(sse.got[s]) = 2 /\ sse.got[s][1].n = 1 /\ sse.got[s][2].n = 2

\* C37: when the re-sync of a fresh sync fetches no jobs or fails, the Jenkins
\* records stored before the call are still present afterwards
C37_HistoryKeptWhenUpstreamDown ==
  [][(/\ opk' = "fresh_sync"
      /\ tick' = tick
      /\ fn' = "fresh_sync_jenkins"
      /\ (arg'.jobs = <<>> \/ arg'.raised))
     => \A i \in JenkinsRecords : i \in DOMAIN store' /\ store'[i] = store[i]]_vars

\* a fresh sync that fetched no jobs has run on a store that held a Jenkins
\* record, and the store holds none now
C37_FreshSyncFetchedNothing ==
  /\ opk = "fresh_sync"
  /\ fn = "fresh_sync_jenkins"
  /\ arg.jobs = <<>>
  /\ arg.before # {}
  /\ JenkinsRecords = {}

\* C5: when a poll sync and a webhook reconcile, or two webhook reconciles,
\* of the same build interleave, the store never holds two records for the
\* build's key.
C5_NoDoubleInsert ==
  \A i \in DOMAIN store :
    store[i].provider = "jenkins" => Cardinality(SameKey(i)) <= 1

\* C5 case: the scheduled job and the webhook handler are both between their
\* lookup of the build and their commit, both about to insert.
C5_TwoInsertsPending ==
  \E p, q \in Procs : p # q /\ proc[p].new # <<>> /\ proc[q].new # <<>>

\* C6: when the paths that can alert a failed build interleave (webhook
\* handler, poll sync, sweep), no record has an alert delivered twice while
\* it is failing: the check of notified, the delivery and the flip are one
\* step per record.
C6_NoDoubleDelivery ==
  \A i \in DOMAIN store : store[i].status = "failure" => epi[i] <= 1

\* C6 case: two threads are each at a notifier call for the same committed,
\* un-notified record.
C6_TwoPassedTheCheck ==
  \E p, q \in Procs :
    /\ p # q
    /\ proc[p].pc = "h_alert2"
    /\ proc[q].pc = "p_sweep"
    /\ proc[p].ret \in proc[q].todo
    /\ ~store[proc[p].ret].notified

\* C7: over webhook and push submissions, poll cycles and manual syncs, no
\* record has a failure alert delivered more than once while its status stays
\* failure.
C7_DeliveredOncePerFailure ==
  \A i \in DOMAIN store : epi[i] <= 1

\* C7 case: a failure alert has been delivered for a record that is failing.
C7_FailureDelivered ==
  \E i \in DOMAIN store : store[i].status = "failure" /\ epi[i] >= 1

\* C8: once the handling operation is over, a record's notified flag is true
\* exactly when a failure alert for it has been delivered, at every entry
\* point that alerts.
C8_NotifiedIffDelivered ==
  \A i \in DOMAIN store : store[i].notified <=> ever[i]

\* C8 case: an alert has been delivered for a record of the store.
C8_SomeDelivered ==
  \E i \in DOMAIN store : ever[i]

\* C9: the notified flag of a record that stays in the store never goes from
\* true back to false.
C9_NotifiedNeverReset ==
  [][\A i \in DOMAIN store \cap DOMAIN store' :
       store[i].notified => store'[i].notified]_vars

\* C9 witness: a record that was notified as failing has since been updated
\* to another status and still carries the flag.
C9_NotifiedKeptAfterUpdate ==
  \E i \in DOMAIN store : store[i].notified /\ store[i].status # "failure"

\* C10: a record that was alerted as failure and then reconciled as success
\* gets a call of send_failure_alert when it is next reconciled as failure.
C10_FailureAgainAlertsAgain ==
  [][(/\ tick' = tick
      /\ opk \in Reconciles
      /\ opk' \in Reconciles
      /\ tgt \in DOMAIN store
      /\ tgt' = tgt
      /\ ever[tgt]
      /\ tobs = "success"
      /\ store[tgt].status = "success"
      /\ tobs' = "failure") => tatt' >= 1]_vars

\* C10 case: an alerted record has been reconciled as success.
C10_AlertedThenSuccess ==
  /\ opk \in Reconciles
  /\ tgt \in DOMAIN store
  /\ ever[tgt]
  /\ tobs = "success"
  /\ store[tgt].status = "success"

====
